---- MODULE Spec2Model ----
(***************************************************************************)
(* CowNet social-network engine: graph construction from interaction       *)
(* records (sna_node / create_social_network_graph), the metric pipeline   *)
(* (get_demo_sna_results) and the what-if removal of one cow               *)
(* (remove_cow_from_network / simulation_node).                            *)
(*                                                                         *)
(* Python objects live in a heap: a dict is a heap cell holding its keys   *)
(* in insertion order and its values; a value that is itself a dict is the *)
(* address of that dict.  A networkx Graph is the address of its adjacency *)
(* dict (node -> neighbour dict -> edge attribute dict).  Real numbers are *)
(* fixed-point integers in units of 1/ONE, except the edge distance, which *)
(* is kept as an exact fraction.                                           *)
(***************************************************************************)
EXTENDS Integers, Sequences, FiniteSets, TLC

VARIABLES
    interactions,        \* state['interactions']: <<>> (None) or <<dataset>>
    sna_graph,           \* state['sna_graph']: heap address, 0 is None
    sna_metrics,         \* state['sna_metrics']: <<>> (None) or <<bundle>>
    simulation_graph,    \* state['simulation_graph']: heap address, 0 is None
    simulation_metrics,  \* state['simulation_metrics']: <<>> (None) or <<bundle>>
    messages,            \* the message(s) appended by the last node
    heap,                \* the dict objects reachable from the state
    fault,               \* exception that ended the last node, "none" if it returned
    calls                \* the invocations of the removal tool under way, by caller

vars == <<interactions, sna_graph, sna_metrics, simulation_graph,
          simulation_metrics, messages, heap, fault, calls>>

-----------------------------------------------------------------------------
(* Bounds of the model *)

\* rows of the data file read by data_loader_node in the workflow
MaxRows == 2
\* times one record occurs in the data set handed to the graph builder (SpecBuild)
MaxTimes == 3
\* distinct pairs of the herd handed to the engine (SpecEngine)
MaxPairs == 4

\* member ids, in the order Python compares them
CowIds == <<"A", "B", "C", "D", "E", "F">>
\* an id that is never a member
Stranger == "Z"
NaN == "NaN"
None == 0

Rank(c) == CHOOSE i \in 1..Len(CowIds) : CowIds[i] = c

Range(s) == {s[i] : i \in 1..Len(s)}

RECURSIVE SumSeq(_)
SumSeq(s) == IF s = <<>> THEN 0 ELSE s[1] + SumSeq(Tail(s))

\* the first of two values
FirstOf(a, b) == a

Max2(a, b) == IF a >= b THEN a ELSE b
Min2(a, b) == IF a <= b THEN a ELSE b
Abs(a) == IF a < 0 THEN 0 - a ELSE a

\* the function f itself, as a table of its values: each value is computed
\* once, when the table is made, and not at every application
Table(f) == f @@ <<>>

\* F of the value of x: x is computed first, then F of it
Then(x, F(_)) == CHOOSE r \in {F(y) : y \in {x}} : TRUE

\* the values of f at the members of the sequence ns, in that order
ValuesOf(f, ns) == Table([i \in 1..Len(ns) |-> f[ns[i]]])

-----------------------------------------------------------------------------
(* Python dicts and the heap *)

\* a dict object: kind "graph" (node -> address of neighbour dict),
\* "nbrs" (neighbour -> address of attribute dict) or "attr" (name -> value)
NewDict(kind) == [t |-> kind, keys |-> <<>>, val |-> <<>>]

Has(d, k) == k \in DOMAIN d.val

Put(d, k, v) ==
    IF Has(d, k) THEN [d EXCEPT !.val[k] = v]
    ELSE [d EXCEPT !.keys = Append(d.keys, k), !.val = (k :> v) @@ d.val]

Del(d, k) ==
    [d EXCEPT !.keys = SelectSeq(d.keys, LAMBDA x : x # k),
              !.val = [x \in (DOMAIN d.val) \ {k} |-> d.val[x]]]

\* d.update(other) on two attribute dicts
RECURSIVE UpdateKeys(_, _, _)
UpdateKeys(d, other, ks) ==
    IF ks = <<>> THEN d
    ELSE UpdateKeys(Put(d, ks[1], other.val[ks[1]]), other, Tail(ks))

Update(d, other) == UpdateKeys(d, other, other.keys)

\* allocate a new object: the new heap, the address is its length
Alloc(h, obj) == Append(h, obj)

Store(h, a, obj) == [h EXCEPT ![a] = obj]

-----------------------------------------------------------------------------
(* networkx.Graph on the heap *)

\* G.nodes, in insertion order
Nodes(h, g) == h[g].keys

\* list(G.neighbors(n)) = list(G._adj[n])
Neighbors(h, g, n) == h[h[g].val[n]].keys

\* G.add_node(n)
add_node(h, g, n) ==
    IF Has(h[g], n) THEN h
    ELSE LET h1 == Alloc(h, NewDict("nbrs"))
         IN Store(h1, g, Put(h1[g], n, Len(h1)))

\* G.add_edge(u, v, **attr): attr is an attribute dict given by value
add_edge(h, g, u, v, attr) ==
    Then(add_node(add_node(h, g, u), g, v), LAMBDA h1 :
    Then(h1[g].val[u], LAMBDA au :
    Then(~Has(h1[au], v), LAMBDA fresh :
    Then(IF fresh THEN Alloc(h1, NewDict("attr")) ELSE h1, LAMBDA h2 :
    Then(IF fresh THEN Len(h2) ELSE h1[au].val[v], LAMBDA dd :
    Then(Store(h2, dd, Update(h2[dd], attr)), LAMBDA h3 :
    Then(Store(h3, au, Put(h3[au], v, dd)), LAMBDA h4 :
    Store(h4, h4[g].val[v], Put(h4[h4[g].val[v]], u, dd)))))))))

\* G.add_edges_from(edges): edges is a sequence of <<u, v, attr>>
RECURSIVE add_edges_from(_, _, _)
add_edges_from(h, g, edges) ==
    IF edges = <<>> THEN h
    ELSE Then(add_edge(h, g, edges[1][1], edges[1][2], edges[1][3]),
              LAMBDA h1 : add_edges_from(h1, g, Tail(edges)))

\* a call that adds no member
add_no_nodes(h, g, ns) == h

RECURSIVE add_nodes_from(_, _, _)
add_nodes_from(h, g, ns) ==
    IF ns = <<>> THEN h
    ELSE Then(add_node(h, g, ns[1]), LAMBDA h1 : add_nodes_from(h1, g, Tail(ns)))

\* ((u, v, data) for u, nbrs in d.items() for v, data in nbrs.items())
RECURSIVE RowItems(_, _, _, _)
RowItems(h, inner, u, vs) ==
    IF vs = <<>> THEN <<>>
    ELSE <<<<u, vs[1], h[h[inner].val[vs[1]]]>>>> \o RowItems(h, inner, u, Tail(vs))

RECURSIVE AdjItems(_, _, _)
AdjItems(h, d, us) ==
    IF us = <<>> THEN <<>>
    ELSE RowItems(h, h[d].val[us[1]], us[1], h[h[d].val[us[1]]].keys)
         \o AdjItems(h, d, Tail(us))

\* a conversion that hands back the adjacency map it was given, building
\* nothing
from_dict_of_dicts_shared(h, d) == [h |-> h, g |-> d]

\* nx.from_dict_of_dicts(d): a new Graph; the edge data are copied into
\* attribute dicts of its own.  Result: the heap, the graph is at GraphOf.
from_dict_of_dicts(h, d) ==
    LET h1 == Alloc(h, NewDict("graph"))
        g == Len(h1)
    IN Then(add_nodes_from(h1, g, h[d].keys),
            LAMBDA h2 : [h |-> add_edges_from(h2, g, AdjItems(h, d, h[d].keys)), g |-> g])

\* G.copy(): nodes and edges are added to a new Graph with copied data
copy(h, g) == from_dict_of_dicts(h, g)

\* G.degree(n, weight='count'): the counts of the edges at n, a self-loop
\* twice
degree_by_count(h, g, n) ==
    SumSeq([i \in 1..Len(Neighbors(h, g, n)) |->
               h[h[h[g].val[n]].val[Neighbors(h, g, n)[i]]].val["count"]])
        + (IF Has(h[h[g].val[n]], n) THEN h[h[h[g].val[n]].val[n]].val["count"] ELSE 0)

\* G.degree(n): a self-loop counts twice
degree(h, g, n) ==
    Len(Neighbors(h, g, n)) + (IF Has(h[h[g].val[n]], n) THEN 1 ELSE 0)

number_of_nodes(h, g) == Len(Nodes(h, g))

\* a count of the entries of the adjacency rows, which has every edge
\* between two members twice
number_of_entries(h, g) ==
    SumSeq([i \in 1..Len(Nodes(h, g)) |-> Len(Neighbors(h, g, Nodes(h, g)[i]))])

number_of_edges(h, g) ==
    SumSeq([i \in 1..Len(Nodes(h, g)) |-> degree(h, g, Nodes(h, g)[i])]) \div 2

\* G.remove_node(n): n leaves every neighbour's dict, then the adjacency dict
RECURSIVE DelFromRows(_, _, _, _)
DelFromRows(h, g, us, n) ==
    IF us = <<>> THEN h
    ELSE LET a == h[g].val[us[1]]
         IN Then(Store(h, a, Del(h[a], n)), LAMBDA h1 : DelFromRows(h1, g, Tail(us), n))

\* a removal that also drops the members it leaves without neighbour
remove_node_and_alone(h, g, n) ==
    Then(DelFromRows(h, g, Neighbors(h, g, n), n), LAMBDA h1 :
    Then(Store(h1, g, Del(h1[g], n)), LAMBDA h2 :
    Then({u \in DOMAIN h2[g].val : h2[h2[g].val[u]].keys # <<>>}, LAMBDA kept :
    Store(h2, g, [h2[g] EXCEPT !.keys = SelectSeq(h2[g].keys, LAMBDA u : u \in kept),
                               !.val = [u \in kept |-> h2[g].val[u]]]))))

remove_node(h, g, n) ==
    Then(DelFromRows(h, g, Neighbors(h, g, n), n), LAMBDA h1 : Store(h1, g, Del(h1[g], n)))

\* nx.to_dict_of_dicts(G): dod[u] = nbrdict.copy(), a shallow copy that
\* shares the attribute dicts with G
RECURSIVE CopyRows(_, _, _, _)
CopyRows(h, g, dod, us) ==
    IF us = <<>> THEN h
    ELSE LET h1 == Alloc(h, h[h[g].val[us[1]]])
         IN Then(Store(h1, dod, Put(h1[dod], us[1], Len(h1))),
                 LAMBDA h2 : CopyRows(h2, g, dod, Tail(us)))

to_dict_of_dicts(h, g) ==
    LET h1 == Alloc(h, NewDict("graph"))
    IN [h |-> CopyRows(h1, g, Len(h1), Nodes(h, g)), g |-> Len(h1)]

-----------------------------------------------------------------------------
(* Objects reachable from the state, and the heap without the garbage *)

Children(obj) ==
    IF obj.t = "attr" THEN <<>>
    ELSE [i \in 1..Len(obj.keys) |-> obj.val[obj.keys[i]]]

\* addresses reachable from the addresses in todo, in order of first visit
RECURSIVE Reach(_, _, _)
Reach(h, todo, seen) ==
    IF todo = <<>> THEN seen
    ELSE IF todo[1] = None \/ todo[1] \in Range(seen)
         THEN Reach(h, Tail(todo), seen)
         ELSE Reach(h, Children(h[todo[1]]) \o Tail(todo), Append(seen, todo[1]))

Reachable(h, a) == Range(Reach(h, <<a>>, <<>>))

IndexOf(s, x) == CHOOSE i \in 1..Len(s) : s[i] = x

Rename(obj, order) ==
    IF obj.t = "attr" THEN obj
    ELSE [obj EXCEPT !.val = [k \in DOMAIN obj.val |-> IndexOf(order, obj.val[k])]]

\* garbage collection: the objects reachable from the roots, renumbered in
\* order of first visit (addresses carry no meaning beyond identity)
Collect(h, roots) ==
    LET order == Reach(h, roots, <<>>)
    IN [h |-> Table([i \in 1..Len(order) |-> Rename(h[order[i]], order)]),
        at |-> [i \in 1..Len(roots) |->
                   IF roots[i] = None THEN None ELSE IndexOf(order, roots[i])]]

-----------------------------------------------------------------------------
(* Interaction records and their aggregation (sna_node) *)

\* An interaction record, and a cell left empty.  Nothing in the program
\* depends on the order of the records of a data set (groupby sorts and
\* counts), so a data set is the bag of its records: a function from the
\* records to the number of times each occurs.
Rec(a, b) == [cow_i |-> a, cow_j |-> b]

\* pd.DataFrame(interactions): its columns, the keys of the records, and its rows
DataFrame(records) ==
    [columns |-> UNION {DOMAIN r : r \in DOMAIN records}, rows |-> records]

PairLess(p, q) ==
    \/ Rank(p[1]) < Rank(q[1])
    \/ p[1] = q[1] /\ Rank(p[2]) < Rank(q[2])

RECURSIVE SortPairs(_)
SortPairs(ps) ==
    IF ps = {} THEN <<>>
    ELSE LET first == CHOOSE p \in ps : \A q \in ps \ {p} : PairLess(p, q)
         IN <<first>> \o SortPairs(ps \ {first})

\* an aggregation that keeps the groups whose key has a NaN
groupby_size_keepna(df) ==
    LET keysOf == SortPairs({<<r.cow_i, r.cow_j>> : r \in DOMAIN df.rows})
    IN [i \in 1..Len(keysOf) |->
           [cow_i |-> keysOf[i][1], cow_j |-> keysOf[i][2],
            count |-> df.rows[Rec(keysOf[i][1], keysOf[i][2])]]]

\* interactions_df.groupby(["cow_i", "cow_j"]).size().reset_index(name="count"):
\* rows with NaN in a key are dropped, the groups come sorted by key
groupby_size(df) ==
    LET valid == {r \in DOMAIN df.rows : r.cow_i # NaN /\ r.cow_j # NaN}
        keysOf == SortPairs({<<r.cow_i, r.cow_j>> : r \in valid})
    IN [i \in 1..Len(keysOf) |->
           [cow_i |-> keysOf[i][1], cow_j |-> keysOf[i][2],
            count |-> df.rows[Rec(keysOf[i][1], keysOf[i][2])]]]

-----------------------------------------------------------------------------
(* create_social_network_graph *)

\* a length that grows with the count
LengthByCount(count, max_count) == [num |-> max_count - count, den |-> max_count - 1]

\* length = max_length - (count - 1) / (max_count - 1 + 1e-9) * (max_length - min_length)
\* with min_length = 0.2 and max_length = 2.0, in binary64 arithmetic.  The
\* value is kept as the two integers that determine it, num = count - 1 and
\* den = max_count - 1, with 0 <= num <= den.
Length(count, max_count) == [num |-> count - 1, den |-> max_count - 1]

\* l1 < l2 for two lengths of one graph (the same den): the quotient
\* num / (den + 1e-9) of integers up to 2^24 grows by more than 1e-8 with
\* num, far above the spacing of the doubles, and so does its product by 1.8
Shorter(l1, l2) == l1.den = l2.den /\ l1.num > l2.num

\* a denominator without the epsilon
EpsilonAbsent(den) == TRUE

\* den + 1e-9 rounds to den itself once 1e-9 is below half the spacing of the
\* doubles at den, which is the case from 2^24 on
EpsilonLost(den) == den >= 2^24

\* the quotient q = num / (den + 1e-9) is 0.0 for num = 0, is 1.0 when
\* num = den and the epsilon is lost, and lies strictly between otherwise
\* the denominator den + 1e-9 as a double is den itself when the epsilon is
\* lost and lies above den otherwise: it is 0.0 only for den = 0 with the
\* epsilon lost
DividesByZero(l) == l.den = 0 /\ EpsilonLost(l.den)

QuotientIsZero(l) == l.num = 0
QuotientIsOne(l) == l.num = l.den /\ EpsilonLost(l.den)

\* where 2.0 - q * (2.0 - 0.2) lies: it is 2.0 for q = 0.0; for q = 1.0 it is
\* 2.0 - 1.8 = 0.19999999999999996, below 0.2; for 0 < q < 1 the product is at
\* most the double before 1.8, and 0.2 < 0.20000000000000018 <= length < 2.0.
\* No q yields the double 0.2.
Place(l) ==
    IF DividesByZero(l) THEN "undefined"
    ELSE IF QuotientIsZero(l) THEN "max_length"
    ELSE IF QuotientIsOne(l) THEN "below_min_length"
    ELSE "inside"

IsMinLength(l) == Place(l) = "min_length"
IsMaxLength(l) == Place(l) = "max_length"
InLengthRange(l) == Place(l) \in {"min_length", "inside", "max_length"}

AttrOf(name, value) == [t |-> "attr", keys |-> <<name>>, val |-> (name :> value)]

\* for each row: G.add_edge(cow1, cow2, count=count)
RECURSIVE AddCountEdges(_, _, _)
AddCountEdges(h, g, rows) ==
    IF rows = <<>> THEN h
    ELSE Then(add_edge(h, g, rows[1].cow_i, rows[1].cow_j, AttrOf("count", rows[1].count)),
              LAMBDA h1 : AddCountEdges(h1, g, Tail(rows)))

RECURSIVE MaxOf(_)
MaxOf(s) == IF Len(s) = 1 THEN s[1] ELSE Max2(s[1], MaxOf(Tail(s)))

\* edge_lengths[(cow_i, cow_j)] = length, then G[u][v]['distance'] = length
RECURSIVE SetDistances(_, _, _, _)
SetDistances(h, g, rows, max_count) ==
    IF rows = <<>> THEN h
    ELSE LET a == h[h[g].val[rows[1].cow_i]].val[rows[1].cow_j]
             l == Length(rows[1].count, max_count)
         IN Then(Store(h, a, Put(h[a], "distance", l)),
                 LAMBDA h1 : SetDistances(h1, g, Tail(rows), max_count))

create_social_network_graph(h, interaction_counts) ==
    LET h1 == Alloc(h, NewDict("graph"))
        G == Len(h1)
        max_count == MaxOf([i \in 1..Len(interaction_counts) |-> interaction_counts[i].count])
    IN Then(AddCountEdges(h1, G, interaction_counts), LAMBDA h2 :
       Then(SetDistances(h2, G, interaction_counts, max_count), LAMBDA h3 :
       to_dict_of_dicts(h3, G)))

-----------------------------------------------------------------------------
(* Numbers of the metric pipeline: fixed point, ONE is 1.0 *)

\* divisible by every n <= 10, so the fractions of small graphs are exact
ONE == 2 * 2 * 2 * 3 * 3 * 5 * 7

\* a / b rounded to the nearest unit, b > 0
Quot(a, b) ==
    IF a >= 0 THEN (2 * a + b) \div (2 * b) ELSE 0 - ((2 * (0 - a) + b) \div (2 * b))

RECURSIVE SeqOf(_)
SeqOf(S) ==
    IF S = {} THEN <<>>
    ELSE LET x == CHOOSE y \in S : TRUE IN <<x>> \o SeqOf(S \ {x})

\* the sum of F(x) over the x in S
SumOver(S, F(_)) ==
    LET q == SeqOf(S) IN SumSeq([i \in 1..Len(q) |-> F(q[i])])

\* integer square root by bisection: the r in lo..hi with r*r <= n < (r+1)*(r+1)
RECURSIVE Bisect(_, _, _)
Bisect(n, lo, hi) ==
    IF lo = hi THEN lo
    ELSE LET mid == (lo + hi + 1) \div 2
         IN IF mid * mid <= n THEN Bisect(n, mid, hi) ELSE Bisect(n, lo, mid - 1)

Sqrt(n) == Bisect(n, 0, 46340)

\* ONE * 1/(1+e^(-k/2)) for k = 0..20
SigmoidTable == <<1260, 1569, 1842, 2060, 2220, 2329, 2400, 2446, 2475, 2492, 2503, 2510, 2514, 2516, 2518, 2519, 2519, 2519, 2520, 2520, 2520>>

\* sigmoid(x) = 1 / (1 + math.exp(-np.clip(x, -10, 10))): the table above,
\* interpolated linearly between its points, mirrored for x < 0
sigmoid(x) ==
    LET c == Max2(0 - 10 * ONE, Min2(10 * ONE, x))
        a == Abs(c)
        half == ONE \div 2
        k == a \div half
        r == a % half
        lo == SigmoidTable[k + 1]
        hi == IF k >= 20 THEN lo ELSE SigmoidTable[k + 2]
        pos == lo + Quot((hi - lo) * r, half)
    IN IF c >= 0 THEN pos ELSE ONE - pos

\* sorted(values)
RECURSIVE sorted(_)
sorted(s) ==
    IF s = <<>> THEN <<>>
    ELSE LET i == CHOOSE j \in 1..Len(s) : \A k \in 1..Len(s) : s[j] <= s[k]
         IN <<s[i]>> \o sorted(SubSeq(s, 1, i - 1) \o SubSeq(s, i + 1, Len(s)))

\* np.percentile(a, 25 * quarters): linear interpolation between the two
\* nearest ranks of the sorted values
percentile(a, quarters) ==
    LET srt == sorted(a)
        pos == (Len(a) - 1) * quarters
        lo == pos \div 4
        r == pos % 4
    IN IF r = 0 THEN srt[lo + 1]
       ELSE srt[lo + 1] + Quot((srt[lo + 2] - srt[lo + 1]) * r, 4)

\* a centre that is 0 whatever the values
Origin(a) == 0

\* np.median(a)
median(a) == percentile(a, 2)

\* np.mean(a)
mean(a) == Quot(SumSeq(a), Len(a))

\* np.std(a): population standard deviation
std(a) ==
    LET m == mean(a)
    IN Sqrt(SumSeq([i \in 1..Len(a) |-> (a[i] - m) * (a[i] - m)]) \div Len(a))

\* the denominator of robust_z_score: iqr = q75 - q25; if iqr == 0 then
\* std * 1.35; if that is 0 too then 1.0
Scale(scores_array) ==
    Then(percentile(scores_array, 3) - percentile(scores_array, 1), LAMBDA iqr0 :
    Then(IF iqr0 = 0 THEN Quot(std(scores_array) * 135, 100) ELSE iqr0, LAMBDA iqr1 :
    IF iqr1 = 0 THEN ONE ELSE iqr1))

\* robust_z_score(values): values maps the members in ns to scores
robust_z_score(values, ns) ==
    IF ns = <<>> THEN <<>>
    ELSE
    Then(ValuesOf(values, ns), LAMBDA scores_array :
    Then(median(scores_array), LAMBDA med :
    Then(Scale(scores_array), LAMBDA iqr :
    Table([c \in Range(ns) |-> Quot((values[c] - med) * 135 * (ONE \div 20), iqr * 5)]))))

-----------------------------------------------------------------------------
(* Shortest paths by hop count *)

NbrSet(h, g, n) == Range(Neighbors(h, g, n))

\* breadth-first search: the hop count from the source to every member, -1
\* when there is no path
RECURSIVE Bfs(_, _, _, _, _, _)
Bfs(h, g, frontier, seen, d, acc) ==
    IF frontier = {} THEN acc
    ELSE LET next == (UNION {NbrSet(h, g, u) : u \in frontier}) \ seen
         IN Bfs(h, g, next, seen \cup next, d + 1,
                Table([n \in DOMAIN acc |-> IF n \in next THEN d + 1 ELSE acc[n]]))

shortest_path_length(h, g, s) ==
    Bfs(h, g, {s}, {s}, 0, Table([n \in Range(Nodes(h, g)) |-> IF n = s THEN 0 ELSE 0 - 1]))

\* number of shortest paths from s to t, given the hop counts D from s
RECURSIVE PathCount(_, _, _, _, _)
PathCount(h, g, D, s, t) ==
    IF t = s THEN 1
    ELSE LET preds == {u \in NbrSet(h, g, t) : D[u] = D[t] - 1}
             F(u) == PathCount(h, g, D, s, u)
         IN SumOver(preds, F)

-----------------------------------------------------------------------------
(* compute_centralities *)

\* nx.betweenness_centrality(G, normalized=True)
betweenness_centrality(h, g) ==
    LET N == Range(Nodes(h, g))
        n == Cardinality(N)
        D == Table([s \in N |-> shortest_path_length(h, g, s)])
        Sg == Table([s \in N |-> Table([t \in N |->
                  IF D[s][t] < 0 THEN 0 ELSE PathCount(h, g, D[s], s, t)])])
        Through(v) ==
            LET pairs == {p \in (N \ {v}) \X (N \ {v}) :
                             /\ p[1] # p[2]
                             /\ D[p[1]][p[2]] > 0
                             /\ D[p[1]][v] > 0 /\ D[v][p[2]] > 0
                             /\ D[p[1]][v] + D[v][p[2]] = D[p[1]][p[2]]}
                 F(p) == Quot(Sg[p[1]][v] * Sg[v][p[2]] * ONE, Sg[p[1]][p[2]])
            IN SumOver(pairs, F)
    IN Table([v \in N |-> IF n <= 2 THEN Through(v)
                          ELSE Quot(Through(v), (n - 1) * (n - 2))])

\* nx.degree_centrality(G)
degree_centrality(h, g) ==
    LET N == Range(Nodes(h, g))
        n == Cardinality(N)
    IN Table([v \in N |-> IF n <= 1 THEN ONE ELSE Quot(degree(h, g, v) * ONE, n - 1)])

\* nx.closeness_centrality(G), with the Wasserman-Faust scaling it applies
closeness_centrality(h, g) ==
    LET N == Range(Nodes(h, g))
        n == Cardinality(N)
        C(v) ==
            LET D == shortest_path_length(h, g, v)
                reach == {t \in N : D[t] >= 0}
                F(t) == D[t]
                totsp == SumOver(reach, F)
                r == Cardinality(reach) - 1
            IN IF totsp > 0 /\ n > 1 THEN Quot(r * r * ONE, totsp * (n - 1)) ELSE 0
    IN Table([v \in N |-> C(v)])

compute_centralities(h, g) ==
    IF Len(Nodes(h, g)) = 0
    THEN [betweenness |-> <<>>, degree |-> <<>>, closeness |-> <<>>]
    ELSE [betweenness |-> betweenness_centrality(h, g),
          degree |-> degree_centrality(h, g),
          closeness |-> closeness_centrality(h, g)]

-----------------------------------------------------------------------------
(* compute_community_disruption *)

\* nx.community.greedy_modularity_communities(G): Clauset-Newman-Moore.
\* comm maps the label of each community to its members.  Two communities
\* joined by an edge can merge; the gain of merging I and J is
\*   dq = e(I,J)/m - 2 * (K(I)/2m) * (K(J)/2m)
\* (e: edges between them, K: sum of degrees, m: edges of G); DQ below is
\* dq * 4m^2, an integer.  The best pair is the least (-dq, u, v); a merge of
\* (u, v) keeps the label v; merging stops when the best gain is negative.
EdgesBetween(h, g, I, J) ==
    Cardinality({p \in I \X J : p[2] \in NbrSet(h, g, p[1])})

DegreeSum(h, g, I) == LET F(n) == degree(h, g, n) IN SumOver(I, F)

DQ(h, g, I, J) ==
    4 * number_of_edges(h, g) * EdgesBetween(h, g, I, J)
        - 2 * DegreeSum(h, g, I) * DegreeSum(h, g, J)

RECURSIVE Merge(_, _, _)
Merge(h, g, comm) ==
    Then({p \in (DOMAIN comm) \X (DOMAIN comm) :
             p[1] # p[2] /\ EdgesBetween(h, g, comm[p[1]], comm[p[2]]) > 0}, LAMBDA pairs :
    Then(Table([p \in pairs |-> DQ(h, g, comm[p[1]], comm[p[2]])]), LAMBDA dq :
    IF pairs = {} THEN comm
    ELSE Then(CHOOSE p \in pairs : \A q \in pairs \ {p} :
                  dq[p] > dq[q] \/ (dq[p] = dq[q] /\ PairLess(p, q)), LAMBDA best :
         IF dq[best] < 0 THEN comm
         ELSE Merge(h, g, Table([l \in DOMAIN comm \ {best[1]} |->
                  IF l = best[2] THEN comm[best[1]] \cup comm[best[2]] ELSE comm[l]])))))

greedy_modularity_communities(h, g) ==
    LET comm == Merge(h, g, Table([n \in Range(Nodes(h, g)) |-> {n}]))
    IN {comm[l] : l \in DOMAIN comm}

compute_community_disruption(h, g, cow_id) ==
    IF cow_id \notin Range(Nodes(h, g)) \/ Len(Nodes(h, g)) < 3 THEN 0
    ELSE Then(greedy_modularity_communities(h, g), LAMBDA communities :
         Then(CHOOSE c \in communities : cow_id \in c, LAMBDA cow_community :
         Then(Neighbors(h, g, cow_id), LAMBDA neighbors :
         Then(Cardinality({i \in 1..Len(neighbors) :
                  \E c \in communities \ {cow_community} : neighbors[i] \in c}),
              LAMBDA cross_connections :
         IF neighbors = <<>> THEN 0
         ELSE Quot(cross_connections * ONE, Len(neighbors))))))

-----------------------------------------------------------------------------
(* compute_per_cow_sna_metrics *)

\* metrics[cow_id] = {**centralities of the cow, 'community_disruption': ...,
\* 'degree': G.degree(cow_id)}: the later 'degree' entry replaces the degree
\* centrality taken from the centralities
PerCowEntry(h, g, centralities, cow_id) ==
    ("degree" :> degree(h, g, cow_id) * ONE)
    @@ ("community_disruption" :> compute_community_disruption(h, g, cow_id))
    @@ [betweenness |-> centralities.betweenness[cow_id],
        degree |-> centralities.degree[cow_id],
        closeness |-> centralities.closeness[cow_id]]

compute_per_cow_sna_metrics(h, g) ==
    LET centralities == compute_centralities(h, g)
    IN Table([cow_id \in Range(Nodes(h, g)) |-> PerCowEntry(h, g, centralities, cow_id)])

-----------------------------------------------------------------------------
(* compute_herd_level_metrics *)

\* nx.density(G)
density(h, g) ==
    LET n == number_of_nodes(h, g)
        m == number_of_edges(h, g)
    IN IF m = 0 \/ n <= 1 THEN 0 ELSE Quot(2 * m * ONE, n * (n - 1))

\* a check that takes every graph for connected
taken_as_connected(h, g) == TRUE

\* nx.is_connected(G), for a graph with at least one member
is_connected(h, g) ==
    \A t \in Range(Nodes(h, g)) : shortest_path_length(h, g, Nodes(h, g)[1])[t] >= 0

\* nx.diameter(G) if nx.is_connected(G) else float('inf')
Finite(n) == [finite |-> TRUE, n |-> n]
Unbounded == [finite |-> FALSE, n |-> 0]

\* the length of the longest path a graph of that many members can hold
diameter_bound(h, g) == Finite(number_of_nodes(h, g) - 1)

diameter(h, g) ==
    IF is_connected(h, g)
    THEN LET N == Range(Nodes(h, g))
             ecc == {shortest_path_length(h, g, s)[t] : s \in N, t \in N}
         IN Finite(CHOOSE d \in ecc : \A e \in ecc : e <= d)
    ELSE Unbounded

\* {} for the empty graph (here <<>>), else one record (here <<record>>)
compute_herd_level_metrics(h, g, per_cow_metrics) ==
    IF Len(Nodes(h, g)) = 0 THEN <<>>
    ELSE
    LET ns == Nodes(h, g)
        degrees == Table([i \in 1..Len(ns) |-> degree(h, g, ns[i])])
        avg_degree == Quot(SumSeq(degrees) * ONE, Len(ns))
        all_betweenness == ValuesOf([c \in Range(ns) |-> per_cow_metrics[c].betweenness], ns)
        all_degree == ValuesOf([c \in Range(ns) |-> per_cow_metrics[c].degree], ns)
    IN << [num_cows |-> Len(ns),
           num_edges |-> number_of_edges(h, g),
           density |-> density(h, g),
           avg_degree |-> avg_degree,
           diameter |-> diameter(h, g),
           avg_betweenness |-> mean(all_betweenness),
           max_betweenness |-> MaxOf(all_betweenness),
           avg_degree_centrality |-> mean(all_degree),
           max_degree |-> Max2(avg_degree, MaxOf(degrees) * ONE)] >>

-----------------------------------------------------------------------------
(* compute_risk_scores *)

\* a risk score left as the formula gives it
Unclamped(x) == x

\* the upper clamp min(1.0, x) of both scores
Clamp(x) == Min2(ONE, x)

\* the factor named deg_centrality in both formulas: per_cow_metrics[cow]['degree']
DegCentralityOf(per_cow_metrics, cow_id) == per_cow_metrics[cow_id].degree

ConflictRisk(per_cow_metrics, norm_betweenness, cow_id) ==
    LET btw == norm_betweenness[cow_id]
        comm_disrupt == per_cow_metrics[cow_id].community_disruption
        deg_centrality == DegCentralityOf(per_cow_metrics, cow_id)
    IN Quot(50 * sigmoid(btw) + 15 * sigmoid(comm_disrupt)
                + 35 * (ONE - deg_centrality), 100)

IsolationRisk(per_cow_metrics, norm_degree, ns, cow_id) ==
    LET degree_ == per_cow_metrics[cow_id].degree
        deg_centrality == DegCentralityOf(per_cow_metrics, cow_id)
        closeness == per_cow_metrics[cow_id].closeness
    IN Quot(50 * (ONE - deg_centrality) + 30 * (ONE - closeness)
                + 20 * Abs(degree_ - mean(ValuesOf(norm_degree, ns))), 100)

compute_risk_scores(h, g, per_cow_metrics) ==
    Then(Nodes(h, g), LAMBDA ns :
    Then(robust_z_score([c \in Range(ns) |-> per_cow_metrics[c].betweenness], ns),
         LAMBDA norm_betweenness :
    Then(robust_z_score([c \in Range(ns) |-> per_cow_metrics[c].degree], ns),
         LAMBDA norm_degree :
    Table([cow_id \in Range(ns) |->
           [conflict_risk |-> Clamp(ConflictRisk(per_cow_metrics, norm_betweenness, cow_id)),
            isolation_risk |-> Clamp(IsolationRisk(per_cow_metrics, norm_degree, ns, cow_id))]]))))

-----------------------------------------------------------------------------
(* get_demo_sna_results *)

\* number of entries of the top-risk list
TopK == 5

RiskKey(scores) == Max2(scores.conflict_risk, scores.isolation_risk)

\* a list left in the order it was given
LeftAsGiven(risk_scores, items) == items

\* sorted(items, key=..., reverse=True): descending, equal keys keep the
\* order they had in items
RECURSIVE SortedByRisk(_, _)
SortedByRisk(risk_scores, items) ==
    IF items = <<>> THEN <<>>
    ELSE LET i == CHOOSE j \in 1..Len(items) :
                    /\ \A k \in 1..Len(items) :
                           RiskKey(risk_scores[items[j]]) >= RiskKey(risk_scores[items[k]])
                    /\ \A k \in 1..(j - 1) :
                           RiskKey(risk_scores[items[k]]) < RiskKey(risk_scores[items[j]])
         IN <<items[i]>>
            \o SortedByRisk(risk_scores, SubSeq(items, 1, i - 1) \o SubSeq(items, i + 1, Len(items)))

get_demo_sna_results(h, g) ==
    Then(compute_per_cow_sna_metrics(h, g), LAMBDA per_cow_metrics :
    Then(compute_risk_scores(h, g, per_cow_metrics), LAMBDA risk_scores :
    Then(SortedByRisk(risk_scores, Nodes(h, g)), LAMBDA ranked :
    Then(SubSeq(ranked, 1, Min2(TopK, Len(ranked))), LAMBDA top_risks :
       [herd_metrics |-> compute_herd_level_metrics(h, g, per_cow_metrics),
        per_cow_metrics |-> per_cow_metrics,
        risk_scores |-> risk_scores,
        top_risk_cows |-> Table([i \in 1..Len(top_risks) |->
            [cow_id |-> top_risks[i],
             conflict_risk |-> risk_scores[top_risks[i]].conflict_risk,
             isolation_risk |-> risk_scores[top_risks[i]].isolation_risk]])]))))

-----------------------------------------------------------------------------
(* remove_cow_from_network *)

NoBaseline == [kind |-> "no_baseline"]

\* a member-not-found message that gives the member count less one
NotPresentLessOne(cow_id, total) ==
    [kind |-> "not_present", cow_id |-> cow_id, total_nodes |-> total - 1]

NotPresent(cow_id, total) == [kind |-> "not_present", cow_id |-> cow_id, total_nodes |-> total]
Removed(cow_id, deg, n, dn, e, de) ==
    [kind |-> "removed", cow_id |-> cow_id, degree |-> deg, nodes |-> n,
     nodes_removed |-> dn, edges |-> e, edges_removed |-> de]

\* src1, tools/simulation_tools.py.  The result: the heap after the call,
\* the content string, whether a dict (and not a tuple) is returned, and the
\* artifact: <<>> for {} or one record with the graph and the metrics.
remove_cow_from_network(h, cow_id, graph) ==
    IF graph = None
    THEN [h |-> h, content |-> NoBaseline, is_dict |-> FALSE, artifact |-> <<>>]
    ELSE
    Then(from_dict_of_dicts(h, graph), LAMBDA base :
    LET G_base == base.g
    IN IF cow_id \notin Range(Nodes(base.h, G_base))
       THEN [h |-> base.h,
             content |-> NotPresent(cow_id, Len(Nodes(base.h, G_base))),
             is_dict |-> FALSE, artifact |-> <<>>]
       ELSE
       Then(copy(base.h, G_base), LAMBDA cp :
       LET G_modified == cp.g
           original_degree == degree(cp.h, G_modified, cow_id)
       IN Then(remove_node(cp.h, G_modified, cow_id), LAMBDA h1 :
          LET nodes_removed == 1
              edges_removed == original_degree
          IN Then(to_dict_of_dicts(h1, G_modified), LAMBDA dod :
             Then(from_dict_of_dicts(dod.h, dod.g), LAMBDA modified_graph :
                [h |-> modified_graph.h,
                 content |-> Removed(cow_id, original_degree,
                                     number_of_nodes(h1, G_modified), nodes_removed,
                                     number_of_edges(h1, G_modified), edges_removed),
                 is_dict |-> TRUE,
                 artifact |-> <<[modified_graph |-> dod.g,
                                 modified_metrics |->
                                     get_demo_sna_results(modified_graph.h,
                                                          modified_graph.g)]>>])))))

\* src, tools/simulation_tools.py: _remove_cow_from_network, which always
\* returns the pair (content, artifact)
remove_cow_from_network_(h, cow_id, graph) ==
    IF graph = None
    THEN [h |-> h, content |-> NoBaseline, artifact |-> <<>>]
    ELSE
    Then(from_dict_of_dicts(h, graph), LAMBDA base :
    LET G_base == base.g
    IN IF cow_id \notin Range(Nodes(base.h, G_base))
       THEN [h |-> base.h,
             content |-> NotPresent(cow_id, Len(Nodes(base.h, G_base))),
             artifact |-> <<>>]
       ELSE
       Then(copy(base.h, G_base), LAMBDA cp :
       LET G_modified == cp.g
           original_degree == degree(cp.h, G_modified, cow_id)
       IN Then(remove_node(cp.h, G_modified, cow_id), LAMBDA h1 :
          LET nodes_removed == 1
              edges_removed == original_degree
          IN Then(to_dict_of_dicts(h1, G_modified), LAMBDA dod :
                [h |-> dod.h,
                 content |-> Removed(cow_id, original_degree,
                                     number_of_nodes(h1, G_modified), nodes_removed,
                                     number_of_edges(h1, G_modified), edges_removed),
                 artifact |-> <<[modified_graph |-> dod.g,
                                 modified_metrics |->
                                     get_demo_sna_results(h1, G_modified)]>>]))))

-----------------------------------------------------------------------------
(* Invocations of the removal tool that run at the same time *)

\* the callers that may be inside the tool at the same time
Callers == {1, 2}

\* the ids the callers ask to remove: two members and a stranger
CallTargets == {"A", "B", Stranger}

\* the two tools
Tools == {"remove_cow_from_network", "_remove_cow_from_network"}

\* a caller that is not in a call.  A call holds its arguments (tool, cow_id,
\* graph), its locals (G_base, G_modified, original_degree, the neighbours
\* remove_node has still to visit), what it returns (content, the
\* modified graph dod, metrics), and whether it rebuilt the baseline while
\* another call was removing a member
NoCall ==
    [pc |-> "idle", tool |-> "", cow_id |-> "", graph |-> None, G_base |-> None,
     G_modified |-> None, original_degree |-> 0, todo |-> <<>>, dod |-> None,
     content |-> [kind |-> "none"], metrics |-> <<>>, overlapped |-> FALSE]

NoCalls == [p \in Callers |-> NoCall]

\* the graphs the calls refer to, four per caller
CallRoots(cs) ==
    [i \in 1..(4 * Cardinality(Callers)) |->
        LET c == cs[((i - 1) \div 4) + 1]
        IN CASE i % 4 = 1 -> c.graph
             [] i % 4 = 2 -> c.G_base
             [] i % 4 = 3 -> c.G_modified
             [] OTHER -> c.dod]

\* the calls after the heap was renumbered: at[from + i] is the new address
\* of the i-th graph of CallRoots
Moved(cs, at, from) ==
    [p \in Callers |->
        [cs[p] EXCEPT !.graph = at[from + 4 * (p - 1) + 1],
                      !.G_base = at[from + 4 * (p - 1) + 2],
                      !.G_modified = at[from + 4 * (p - 1) + 3],
                      !.dod = at[from + 4 * (p - 1) + 4]]]

\* a step of the call of caller p: the heap it leaves and the call after it
Step(p, h, call) ==
    \E cs \in {[calls EXCEPT ![p] = call]} :
    \E c \in {Collect(h, <<sna_graph, simulation_graph>> \o CallRoots(cs))} :
       /\ heap' = c.h
       /\ sna_graph' = c.at[1]
       /\ simulation_graph' = c.at[2]
       /\ calls' = Moved(cs, c.at, 2)
       /\ UNCHANGED <<interactions, sna_metrics, simulation_metrics, messages, fault>>

\* a caller invokes one of the tools with the baseline of the state
Begin(p) ==
    /\ calls[p].pc \in {"idle", "done"}
    /\ \E tool \in Tools : \E cow_id \in CallTargets :
          Step(p, heap, [NoCall EXCEPT !.pc = "called", !.tool = tool,
                                       !.cow_id = cow_id, !.graph = sna_graph])

\* if sna_graph is None: return; G_base = nx.from_dict_of_dicts(sna_graph)
Rebuild(p) ==
    /\ calls[p].pc = "called"
    /\ IF calls[p].graph = None
       THEN Step(p, heap, [calls[p] EXCEPT !.pc = "done", !.content = NoBaseline])
       ELSE \E base \in {from_dict_of_dicts(heap, calls[p].graph)} :
               Step(p, base.h,
                    [calls[p] EXCEPT !.pc = "rebuilt", !.G_base = base.g,
                        !.overlapped = \E q \in Callers \ {p} : calls[q].pc = "removing"])

\* if cow_id not in G_base.nodes: return; G_modified = G_base.copy();
\* original_degree = G_modified.degree(cow_id); remove_node begins:
\* nbrs = list(adj[n])
Lookup(p) ==
    /\ calls[p].pc = "rebuilt"
    /\ IF calls[p].cow_id \notin Range(Nodes(heap, calls[p].G_base))
       THEN Step(p, heap,
                 [calls[p] EXCEPT !.pc = "done", !.G_base = None,
                     !.content = NotPresent(calls[p].cow_id,
                                            Len(Nodes(heap, calls[p].G_base)))])
       ELSE \E cp \in {copy(heap, calls[p].G_base)} :
               Step(p, cp.h,
                    [calls[p] EXCEPT !.pc = "removing", !.G_modified = cp.g,
                        !.original_degree = degree(cp.h, cp.g, calls[p].cow_id),
                        !.todo = Neighbors(cp.h, cp.g, calls[p].cow_id)])

\* remove_node: for u in nbrs: del adj[u][n], one neighbour at a time
Unlink(p) ==
    /\ calls[p].pc = "removing"
    /\ calls[p].todo # <<>>
    /\ Step(p, DelFromRows(heap, calls[p].G_modified, <<calls[p].todo[1]>>, calls[p].cow_id),
            [calls[p] EXCEPT !.todo = Tail(calls[p].todo)])

\* remove_node: del adj[n]
Pop(p) ==
    /\ calls[p].pc = "removing"
    /\ calls[p].todo = <<>>
    /\ Step(p, Store(heap, calls[p].G_modified,
                     Del(heap[calls[p].G_modified], calls[p].cow_id)),
            [calls[p] EXCEPT !.pc = "removed"])

\* content = ...; modified_graph_dict = nx.to_dict_of_dicts(G_modified)
Serialize(p) ==
    /\ calls[p].pc = "removed"
    /\ \E dod \in {to_dict_of_dicts(heap, calls[p].G_modified)} :
          Step(p, dod.h,
               [calls[p] EXCEPT !.pc = "serialized", !.dod = dod.g,
                   !.content = Removed(calls[p].cow_id, calls[p].original_degree,
                                       number_of_nodes(heap, calls[p].G_modified), 1,
                                       number_of_edges(heap, calls[p].G_modified),
                                       calls[p].original_degree)])

\* get_demo_sna_results of the modified graph (src1: of the graph rebuilt
\* from modified_graph_dict), and the return
Measure(p) ==
    /\ calls[p].pc = "serialized"
    /\ \E mg \in {IF calls[p].tool = "remove_cow_from_network"
                   THEN from_dict_of_dicts(heap, calls[p].dod)
                   ELSE [h |-> heap, g |-> calls[p].G_modified]} :
          Step(p, mg.h,
               [calls[p] EXCEPT !.pc = "done", !.G_base = None, !.G_modified = None,
                   !.metrics = <<get_demo_sna_results(mg.h, mg.g)>>])

-----------------------------------------------------------------------------
(* The nodes of the workflow *)

\* a node returns: the state fields it names are replaced, the objects no
\* longer reachable from the state are dropped
Return(h, graph, sim, metrics, simmetrics, msgs) ==
    \E c \in {Collect(h, <<graph, sim>> \o CallRoots(calls))} :
       /\ heap' = c.h
       /\ sna_graph' = c.at[1]
       /\ simulation_graph' = c.at[2]
       /\ calls' = Moved(calls, c.at, 2)
       /\ sna_metrics' = metrics
       /\ simulation_metrics' = simmetrics
       /\ messages' = msgs
       /\ fault' = "none"

\* a node raises: the step writes nothing to the state
Raise(exception) ==
    /\ fault' = exception
    /\ UNCHANGED <<interactions, sna_graph, sna_metrics, simulation_graph,
                   simulation_metrics, messages, heap, calls>>

Msg(name, content) == [name |-> name, content |-> content]

\* data_loader_node: the records of the data file replace state['interactions']
data_loader_node(records) ==
    /\ interactions' = <<records>>
    /\ messages' = <<Msg("data_loader_agent", [kind |-> "loaded"])>>
    /\ fault' = "none"
    /\ UNCHANGED <<sna_graph, sna_metrics, simulation_graph, simulation_metrics, heap,
                   calls>>

\* the summary message: herd size, edge count and the top-risk list
Summary(sna_results) ==
    [kind |-> "summary",
     num_cows |-> sna_results.herd_metrics[1].num_cows,
     num_edges |-> sna_results.herd_metrics[1].num_edges,
     top_risks |-> sna_results.top_risk_cows]

sna_node ==
    /\ UNCHANGED interactions
    /\ IF interactions = <<>> \/ DOMAIN interactions[1] = {}
       THEN Return(heap, sna_graph, simulation_graph, sna_metrics, simulation_metrics,
                   <<Msg("sna_agent", [kind |-> "no_interaction_data"])>>)
       ELSE
       LET interactions_df == DataFrame(interactions[1])
       IN IF ~({"cow_i", "cow_j"} \subseteq interactions_df.columns)
          THEN Return(heap, sna_graph, simulation_graph, sna_metrics, simulation_metrics,
                      <<Msg("sna_agent", [kind |-> "missing_columns"])>>)
          ELSE
          LET interaction_counts == groupby_size(interactions_df)
          IN IF interaction_counts = <<>>
             THEN Return(heap, sna_graph, simulation_graph, sna_metrics, simulation_metrics,
                         <<Msg("sna_agent", [kind |-> "empty_after_aggregation"])>>)
             ELSE
             \E sna_graph_dict \in {create_social_network_graph(heap, interaction_counts)} :
             \E G \in {from_dict_of_dicts(sna_graph_dict.h, sna_graph_dict.g)} :
             \E sna_results \in {get_demo_sna_results(G.h, G.g)} :
                    Return(G.h, sna_graph_dict.g, simulation_graph, <<sna_results>>,
                           simulation_metrics, <<Msg("sna_agent", Summary(sna_results))>>)

\* src1, agents/simulation_agent.py.  The model's answer is an input: either
\* the call fails (no_answer) or it names a cow_id.
simulation_node(no_answer, cow_id) ==
    /\ UNCHANGED interactions
    /\ IF no_answer
       THEN Return(heap, sna_graph, simulation_graph, sna_metrics, simulation_metrics,
                   <<Msg("ai", [kind |-> "failed_to_select"])>>)
       ELSE
       \E tool_result \in {remove_cow_from_network(heap, cow_id, sna_graph)} :
          IF ~tool_result.is_dict
          THEN \* tool_result is a tuple: tool_result.get raises
               Raise("AttributeError")
          ELSE Return(tool_result.h, sna_graph, tool_result.artifact[1].modified_graph,
                      sna_metrics, <<tool_result.artifact[1].modified_metrics>>,
                      <<Msg("ai", tool_result.content),
                        Msg("ai", [kind |-> "removed_cow_id", cow_id |-> cow_id])>>)

\* src, agents/simulation_agent.py.  The agent's reply is an input: whether
\* it holds a ToolMessage, and that message's content ("" when empty).
simulation_node_(has_tool_message, cow_id) ==
    /\ UNCHANGED interactions
    /\ IF ~has_tool_message
       THEN \* cow_id was never bound
            Raise("UnboundLocalError")
       ELSE IF cow_id = ""
       THEN Return(heap, sna_graph, None, sna_metrics, <<>>,
                   <<Msg("simulation_agent", [kind |-> "simulation_completed"])>>)
       ELSE
       \E r \in {remove_cow_from_network_(heap, cow_id, sna_graph)} :
          IF r.artifact = <<>>
          THEN Return(r.h, sna_graph, None, sna_metrics, <<>>,
                      <<Msg("simulation_agent", r.content)>>)
          ELSE Return(r.h, sna_graph, r.artifact[1].modified_graph, sna_metrics,
                      <<r.artifact[1].modified_metrics>>,
                      <<Msg("simulation_agent", r.content)>>)

-----------------------------------------------------------------------------
(* Inputs *)

\* the sequences of n records that follow the order of kinds (repeat: a
\* record may occur more than once)
RECURSIVE Files(_, _, _, _)
Files(kinds, from, n, repeat) ==
    IF n = 0 THEN {<<>>}
    ELSE UNION {{<<kinds[j]>> \o f :
                    f \in Files(kinds, IF repeat THEN j ELSE j + 1, n - 1, repeat)} :
                j \in from..Len(kinds)}

\* the data set with the records of the sequence f
BagOf(f) == [r \in Range(f) |-> Cardinality({k \in 1..Len(f) : f[k] = r})]

\* the data sets of up to n records of the kinds
DataUpTo(kinds, n, repeat) ==
    {BagOf(f) : f \in UNION {Files(kinds, 1, k, repeat) : k \in 0..n}}

\* data files of the workflow: up to MaxRows rows about two cows, a cell may
\* be empty (NaN); and files that lack one of the two columns
WorkflowData ==
    DataUpTo(<<Rec("A", "A"), Rec("A", "B"), Rec("B", "A"), Rec("A", NaN)>>, MaxRows, TRUE)
        \cup {BagOf(<<[cow_i |-> "A"]>>), BagOf(<<[cow_j |-> "B"]>>)}

\* a number of records of one pair from which the epsilon of the length
\* formula is lost
ManyTimes == 2^24 + 1

\* data handed to the graph builder: records on three cows, one pair in both
\* orientations and a record of A with itself among them, each occurring up
\* to MaxTimes times or ManyTimes times
BuildKinds == {Rec("A", "A"), Rec("A", "B"), Rec("A", "C"), Rec("B", "A"), Rec("B", "C")}

BuildData ==
    {[r \in {x \in BuildKinds : m[x] > 0} |-> m[r]] :
        m \in [BuildKinds -> (0..MaxTimes) \cup {ManyTimes}]}

\* herds handed to the engine: up to MaxPairs pairs among five cows, each
\* recorded once, a record of A with itself among them
EngineData ==
    DataUpTo(<<Rec("A", "A"), Rec("A", "B"), Rec("A", "E"), Rec("B", "C"), Rec("B", "D"),
               Rec("C", "D")>>, MaxPairs, FALSE)

\* the ids a simulation may be asked to remove: the cows of the herds of
\* WorkflowData and EngineData, and a stranger
Targets == {"A", "B", "C", "D", "E"} \cup {Stranger}

-----------------------------------------------------------------------------
(* Specifications *)

Init ==
    /\ interactions = <<>>
    /\ sna_graph = None
    /\ sna_metrics = <<>>
    /\ simulation_graph = None
    /\ simulation_metrics = <<>>
    /\ messages = <<>>
    /\ heap = <<>>
    /\ fault = "none"
    /\ calls = NoCalls

Load == \E records \in WorkflowData : data_loader_node(records)

\* what the language model may answer: nothing, or an id
Answers ==
    {[no_answer |-> TRUE, cow_id |-> ""]}
        \cup {[no_answer |-> FALSE, cow_id |-> c] : c \in Targets}

\* a simulation that starts from the graph of the previous simulation when
\* there is one
Accumulate ==
    \E a \in Answers :
        /\ ~a.no_answer
        /\ UNCHANGED interactions
        /\ \E r \in {remove_cow_from_network(heap, a.cow_id,
                         IF simulation_graph = None THEN sna_graph ELSE simulation_graph)} :
              IF ~r.is_dict
              THEN Raise("AttributeError")
              ELSE Return(r.h, sna_graph, r.artifact[1].modified_graph, sna_metrics,
                          <<r.artifact[1].modified_metrics>>,
                          <<Msg("ai", r.content),
                            Msg("ai", [kind |-> "removed_cow_id", cow_id |-> a.cow_id])>>)

Simulate == \E a \in Answers : simulation_node(a.no_answer, a.cow_id)

\* what the agent may reply: no ToolMessage, or one with a content
Replies ==
    {[has_tool_message |-> FALSE, cow_id |-> ""]}
        \cup {[has_tool_message |-> TRUE, cow_id |-> c] : c \in Targets \cup {""}}

Simulate_ == \E r \in Replies : simulation_node_(r.has_tool_message, r.cow_id)

Next == Load \/ sna_node \/ Simulate \/ Simulate_

\* the workflow: the supervisor may route to any node at any time
Spec == Init /\ [][Next]_vars

\* the graph builder applied to every data set of BuildData
InitBuild ==
    /\ interactions \in {<<d>> : d \in BuildData}
    /\ sna_graph = None
    /\ sna_metrics = <<>>
    /\ simulation_graph = None
    /\ simulation_metrics = <<>>
    /\ messages = <<>>
    /\ heap = <<>>
    /\ fault = "none"
    /\ calls = NoCalls

NextBuild == sna_node

SpecBuild == InitBuild /\ [][NextBuild]_vars

\* the engine applied to every herd of EngineData, and to a state whose
\* caller supplied an empty graph
InitEngine ==
    /\ \/ /\ interactions \in {<<d>> : d \in EngineData}
          /\ sna_graph = None
          /\ heap = <<>>
       \/ /\ interactions = <<>>
          /\ heap = <<NewDict("graph")>>
          /\ sna_graph = Len(heap)
    /\ sna_metrics = <<>>
    /\ simulation_graph = None
    /\ simulation_metrics = <<>>
    /\ messages = <<>>
    /\ fault = "none"
    /\ calls = NoCalls

NextEngine == sna_node \/ Simulate \/ Simulate_

SpecEngine == InitEngine /\ [][NextEngine]_vars

\* herds handed to the ranking: up to MaxPairs pairs among six cows, each
\* recorded once
RankData ==
    DataUpTo(<<Rec("A", "B"), Rec("A", "D"), Rec("A", "F"), Rec("B", "C"), Rec("C", "F"),
               Rec("D", "E"), Rec("E", "F")>>, MaxPairs, FALSE)

\* the ranking applied to every herd of RankData
InitRank ==
    /\ interactions \in {<<d>> : d \in RankData}
    /\ sna_graph = None
    /\ sna_metrics = <<>>
    /\ simulation_graph = None
    /\ simulation_metrics = <<>>
    /\ messages = <<>>
    /\ heap = <<>>
    /\ fault = "none"
    /\ calls = NoCalls

NextRank == sna_node

SpecRank == InitRank /\ [][NextRank]_vars

\* a caller of the src1 tool hands the graph returned by the latest
\* simulation back as the baseline of another removal, and keeps what the
\* tool returns in its place
Reenter ==
    \E cow_id \in Targets :
        /\ simulation_graph # None
        /\ UNCHANGED interactions
        /\ \E r \in {remove_cow_from_network(heap, cow_id, simulation_graph)} :
              IF r.artifact = <<>>
              THEN Return(r.h, sna_graph, simulation_graph, sna_metrics, simulation_metrics,
                          <<Msg("caller", r.content)>>)
              ELSE Return(r.h, sna_graph, r.artifact[1].modified_graph, sna_metrics,
                          <<r.artifact[1].modified_metrics>>, <<Msg("caller", r.content)>>)

\* herds handed to repeated removals: up to MaxPairs pairs along a line of
\* four cows, each recorded once, a record of A with itself among them
ReentryData ==
    DataUpTo(<<Rec("A", "A"), Rec("A", "B"), Rec("B", "C"), Rec("C", "D")>>, MaxPairs, FALSE)

InitReentry ==
    /\ interactions \in {<<d>> : d \in ReentryData}
    /\ sna_graph = None
    /\ sna_metrics = <<>>
    /\ simulation_graph = None
    /\ simulation_metrics = <<>>
    /\ messages = <<>>
    /\ heap = <<>>
    /\ fault = "none"
    /\ calls = NoCalls

NextReentry == sna_node \/ Simulate \/ Reenter

\* the engine fed with its own results
SpecReentry == InitReentry /\ [][NextReentry]_vars

\* herds whose pairs were recorded a different number of times: three pairs
\* along a line of four cows, each recorded up to MaxTimes times
RemovalData ==
    {[r \in {x \in DOMAIN m : m[x] > 0} |-> m[r]] :
        m \in [{Rec("A", "B"), Rec("B", "C"), Rec("C", "D")} -> 0..MaxTimes]}

InitRemoval ==
    /\ interactions \in {<<d>> : d \in RemovalData}
    /\ sna_graph = None
    /\ sna_metrics = <<>>
    /\ simulation_graph = None
    /\ simulation_metrics = <<>>
    /\ messages = <<>>
    /\ heap = <<>>
    /\ fault = "none"
    /\ calls = NoCalls

NextRemoval == sna_node \/ Simulate \/ Simulate_

\* removals from herds with edges of different counts
SpecRemoval == InitRemoval /\ [][NextRemoval]_vars

\* herds handed to callers that run at the same time: up to MaxPairs pairs
\* among three cows, each recorded once
ConcurrentData ==
    DataUpTo(<<Rec("A", "B"), Rec("A", "C"), Rec("B", "C")>>, MaxPairs, FALSE)

InitConcurrent ==
    /\ interactions \in {<<d>> : d \in ConcurrentData}
    /\ sna_graph = None
    /\ sna_metrics = <<>>
    /\ simulation_graph = None
    /\ simulation_metrics = <<>>
    /\ messages = <<>>
    /\ heap = <<>>
    /\ fault = "none"
    /\ calls = NoCalls

\* the baseline is built once; the callers then run the tools step by step,
\* in any interleaving
NextConcurrent ==
    \/ sna_graph = None /\ sna_node
    \/ \E p \in Callers :
          Begin(p) \/ Rebuild(p) \/ Lookup(p) \/ Unlink(p) \/ Pop(p) \/ Serialize(p)
              \/ Measure(p)

SpecConcurrent == InitConcurrent /\ [][NextConcurrent]_vars

-----------------------------------------------------------------------------
(* Observations of a state used by the properties *)

\* what the latest update told: the content of its first message
Told == IF messages = <<>> THEN [kind |-> "none"] ELSE messages[1].content

Members(h, g) == IF g = None THEN {} ELSE Range(Nodes(h, g))

\* the edges of a graph or adjacency map, each the set of its one or two ends
Edges(h, g) ==
    IF g = None THEN {}
    ELSE UNION {{{u, v} : v \in NbrSet(h, g, u)} : u \in Members(h, g)}

\* the attribute dict of the edge between u and v
EdgeData(h, g, u, v) == h[h[h[g].val[u]].val[v]]

\* everything an adjacency map holds: members and neighbours in their order,
\* and the attributes of every edge
Snapshot(h, g) ==
    IF g = None THEN <<>>
    ELSE <<Nodes(h, g),
           [u \in Members(h, g) |->
               <<Neighbors(h, g, u),
                 [v \in NbrSet(h, g, u) |-> EdgeData(h, g, u, v)]>>]>>

\* the graphs held by the state, each with the metrics computed for it
Bundles ==
    {b \in {[g |-> sna_graph, m |-> sna_metrics],
            [g |-> simulation_graph, m |-> simulation_metrics]} :
        b.g # None /\ b.m # <<>>}

\* a step of one of the simulation nodes: it raises, or its update carries
\* messages of the simulation
SimulationStep ==
    \/ fault' # "none"
    \/ messages' # <<>> /\ messages'[1].name \in {"ai", "simulation_agent"}

\* a step of sna_node
SnaStep == fault' = "none" /\ messages' # <<>> /\ messages'[1].name = "sna_agent"

-----------------------------------------------------------------------------
(* The simulation engine *)

\* C1: after member v is removed from a baseline of N members and E edges,
\* the modified graph has N - 1 members and E - degree(v) edges, and the
\* summary reports 1 node removed and degree(v) edges removed, which is the
\* real drop of the edge count.
C1_RemovalCounts ==
    Told.kind = "removed" =>
        LET v == Told.cow_id
            N == Cardinality(Members(heap, sna_graph))
            E == Cardinality(Edges(heap, sna_graph))
            after == Cardinality(Edges(heap, simulation_graph))
        IN /\ Cardinality(Members(heap, simulation_graph)) = N - 1
           /\ after = E - degree(heap, sna_graph, v)
           /\ Told.nodes_removed = 1
           /\ Told.edges_removed = degree(heap, sna_graph, v)
           /\ Told.edges_removed = E - after

\* the same for a target that has no record with itself
C1_RemovalCountsNoLoop ==
    (Told.kind = "removed" /\ {Told.cow_id} \notin Edges(heap, sna_graph))
        => C1_RemovalCounts

\* C2: no step of a simulation, successful or failing, changes the members,
\* the edges or the edge attributes of the baseline adjacency map, and the
\* modified graph it stores shares no object with the baseline.
C2_BaselineUntouched ==
    [][SimulationStep =>
          /\ Snapshot(heap', sna_graph') = Snapshot(heap, sna_graph)
          /\ (sna_graph' # None /\ simulation_graph' # None) =>
                 Reachable(heap', sna_graph') \cap Reachable(heap', simulation_graph') = {}]_vars

\* a removal has stored a modified graph that still has edges
C2_Witness ==
    /\ Told.kind = "removed"
    /\ Edges(heap, sna_graph) # {}
    /\ Edges(heap, simulation_graph) # {}

\* what C3 asks of the result r of removing cow_id from the baseline
NotFound(r, cow_id) ==
    /\ r.content.kind = "not_present"
    /\ r.content.cow_id = cow_id
    /\ r.content.total_nodes = Cardinality(Members(heap, sna_graph))
    /\ r.artifact = <<>>
    /\ Snapshot(r.h, sna_graph) = Snapshot(heap, sna_graph)

\* C3: removing an id that is not a member of a baseline with members fails
\* with the member-not-found message, which gives the baseline's member
\* count; no modified graph and no modified metrics are returned or stored,
\* and the baseline keeps its members and edges.
C3_MemberNotFound ==
    /\ Members(heap, sna_graph) # {} =>
           \A cow_id \in Targets \ Members(heap, sna_graph) :
               /\ NotFound(remove_cow_from_network(heap, cow_id, sna_graph), cow_id)
               /\ NotFound(remove_cow_from_network_(heap, cow_id, sna_graph), cow_id)
    /\ Told.kind = "not_present" =>
           /\ Told.cow_id \notin Members(heap, sna_graph)
           /\ Told.total_nodes = Cardinality(Members(heap, sna_graph))
           /\ simulation_graph = None
           /\ simulation_metrics = <<>>

\* a simulation was asked for an id outside a baseline that has members
C3_Witness ==
    /\ Told.kind = "not_present"
    /\ Members(heap, sna_graph) # {}

\* C4: with no baseline, or a baseline without members, the removal fails
\* with the missing-baseline message whatever the target.
C4_MissingBaseline ==
    Members(heap, sna_graph) = {} =>
        \A cow_id \in Targets :
            /\ remove_cow_from_network(heap, cow_id, sna_graph).content.kind = "no_baseline"
            /\ remove_cow_from_network_(heap, cow_id, sna_graph).content.kind = "no_baseline"

\* the part of C4 about an absent baseline
C4_AbsentBaseline ==
    sna_graph = None =>
        \A cow_id \in Targets :
            /\ remove_cow_from_network(heap, cow_id, sna_graph).content.kind = "no_baseline"
            /\ remove_cow_from_network_(heap, cow_id, sna_graph).content.kind = "no_baseline"

-----------------------------------------------------------------------------
(* sna_node *)

\* the three inputs sna_node refuses: no records, records without the field
\* cow_i or without the field cow_j, records none of which names a pair
NoRecords == interactions = <<>> \/ DOMAIN interactions[1] = {}

LackField ==
    /\ ~NoRecords
    /\ \E field \in {"cow_i", "cow_j"} : \A r \in DOMAIN interactions[1] : field \notin DOMAIN r

NoPair ==
    /\ ~NoRecords
    /\ ~LackField
    /\ \A r \in DOMAIN interactions[1] : r.cow_i = NaN \/ r.cow_j = NaN

\* C5: given no records, records that lack cow_i or cow_j, or records that
\* aggregate to no pair, sna_node reports the error and leaves sna_graph and
\* sna_metrics as they were; given anything else it writes both, the metrics
\* being those of the graph.
C5_FailFast ==
    [][SnaStep =>
          LET kind == messages'[1].content.kind
          IN IF NoRecords \/ LackField \/ NoPair
             THEN /\ kind = (IF NoRecords THEN "no_interaction_data"
                             ELSE IF LackField THEN "missing_columns"
                             ELSE "empty_after_aggregation")
                  /\ Snapshot(heap', sna_graph') = Snapshot(heap, sna_graph)
                  /\ sna_metrics' = sna_metrics
             ELSE /\ kind = "summary"
                  /\ Members(heap', sna_graph') # {}
                  /\ sna_metrics' # <<>>
                  /\ DOMAIN sna_metrics'[1].per_cow_metrics = Members(heap', sna_graph')
                  /\ sna_metrics'[1].herd_metrics[1].num_edges
                         = Cardinality(Edges(heap', sna_graph'))]_vars

\* sna_node has refused a data set while an earlier graph and its metrics
\* were in the state
C5_Witness ==
    /\ Told.kind \in {"no_interaction_data", "missing_columns", "empty_after_aggregation"}
    /\ sna_graph # None
    /\ sna_metrics # <<>>

-----------------------------------------------------------------------------
(* Risk scores and metrics *)

\* C6: every conflict_risk and every isolation_risk is at most 1.0.
C6_RiskAtMostOne ==
    \A b \in Bundles : \A c \in DOMAIN b.m[1].risk_scores :
        /\ b.m[1].risk_scores[c].conflict_risk <= ONE
        /\ b.m[1].risk_scores[c].isolation_risk <= ONE

\* a member whose isolation formula gives more than 1.0
C6_Witness ==
    \E b \in Bundles : \E c \in DOMAIN b.m[1].risk_scores :
        LET ns == Nodes(heap, b.g)
            per_cow_metrics == b.m[1].per_cow_metrics
            norm_degree == robust_z_score([n \in Range(ns) |-> per_cow_metrics[n].degree], ns)
        IN IsolationRisk(per_cow_metrics, norm_degree, ns, c) > ONE

\* C7: the factor deg_centrality of both risk formulas is the member's degree
\* divided by (member count - 1), so that 1 - deg_centrality lies in [0, 1].
C7_DegreeTermIsCentrality ==
    \A b \in Bundles : \A c \in Members(heap, b.g) :
        LET deg_centrality == DegCentralityOf(b.m[1].per_cow_metrics, c)
        IN /\ deg_centrality = degree_centrality(heap, b.g)[c]
           /\ 0 <= ONE - deg_centrality
           /\ ONE - deg_centrality <= ONE

\* C8: the metrics of a member hold its degree centrality and its raw degree
\* as two values, and avg_degree_centrality is the mean of the members'
\* degree centralities, a value in [0, 1].
C8_CentralityAndDegree ==
    \A b \in Bundles :
        LET ns == Nodes(heap, b.g)
            dc == degree_centrality(heap, b.g)
        IN /\ \A c \in Range(ns) :
                  \E k1, k2 \in DOMAIN b.m[1].per_cow_metrics[c] :
                      /\ k1 # k2
                      /\ k1 \notin {"betweenness", "closeness", "community_disruption"}
                      /\ k2 \notin {"betweenness", "closeness", "community_disruption"}
                      /\ b.m[1].per_cow_metrics[c][k1] = dc[c]
                      /\ b.m[1].per_cow_metrics[c][k2] = degree(heap, b.g, c) * ONE
           /\ ns # <<>> =>
                  /\ b.m[1].herd_metrics[1].avg_degree_centrality = mean(ValuesOf(dc, ns))
                  /\ b.m[1].herd_metrics[1].avg_degree_centrality >= 0
                  /\ b.m[1].herd_metrics[1].avg_degree_centrality <= ONE

\* the part of C8 that the code meets: the raw degree is carried
C8_RawDegreeCarried ==
    \A b \in Bundles : \A c \in Members(heap, b.g) :
        b.m[1].per_cow_metrics[c].degree = degree(heap, b.g, c) * ONE

-----------------------------------------------------------------------------
(* The graph builder *)

\* the pairs the data set of the state aggregates to
Pairs == {r \in DOMAIN interactions[1] : r.cow_i # NaN /\ r.cow_j # NaN}

\* the largest count of the aggregation
MaxCount == CHOOSE n \in {interactions[1][r] : r \in Pairs} :
                \A r \in Pairs : interactions[1][r] <= n

\* C9: the members of the built graph are the members that appear in a pair,
\* and every distance lies between min_length and max_length.
C9_NodesAndRange ==
    sna_graph # None =>
        /\ Members(heap, sna_graph) = {r.cow_i : r \in Pairs} \cup {r.cow_j : r \in Pairs}
        /\ \A e \in Edges(heap, sna_graph) : \A u \in e : \A v \in e :
               v \in NbrSet(heap, sna_graph, u) =>
                   InLengthRange(EdgeData(heap, sna_graph, u, v).val["distance"])

\* the same as long as no pair is recorded ManyTimes times
C9_NodesAndRangeFew ==
    (\A r \in Pairs : interactions[1][r] < ManyTimes) => C9_NodesAndRange

\* the data set of the scenario of C10
Scenario == (Rec("A", "B") :> 3) @@ (Rec("B", "C") :> 3) @@ (Rec("A", "C") :> 1)

\* C10: every edge whose count is the largest count has a distance equal to
\* min_length; in the scenario the distances of A-B and B-C are min_length
\* and the distance of A-C is max_length.  (A largest count of 1 is left
\* out: there the distance is max_length.)
C10_MaxCountAtMinLength ==
    sna_graph # None =>
        /\ \A u \in Members(heap, sna_graph) : \A v \in NbrSet(heap, sna_graph, u) :
               (MaxCount > 1 /\ EdgeData(heap, sna_graph, u, v).val["count"] = MaxCount) =>
                   IsMinLength(EdgeData(heap, sna_graph, u, v).val["distance"])
        /\ interactions[1] = Scenario =>
               /\ IsMinLength(EdgeData(heap, sna_graph, "A", "B").val["distance"])
               /\ IsMinLength(EdgeData(heap, sna_graph, "B", "C").val["distance"])
               /\ IsMaxLength(EdgeData(heap, sna_graph, "A", "C").val["distance"])

\* the part of C10 that the code meets: in the scenario A-C is at max_length
C10_ScenarioMaxLength ==
    (sna_graph # None /\ interactions[1] = Scenario) =>
        IsMaxLength(EdgeData(heap, sna_graph, "A", "C").val["distance"])

\* the distances of the edges of the built graph
Distances ==
    UNION {{EdgeData(heap, sna_graph, u, v).val["distance"] : v \in NbrSet(heap, sna_graph, u)} :
              u \in Members(heap, sna_graph)}

\* C11: when the largest count is 1 every edge has distance max_length, and
\* no distance of any built graph comes from a division by zero.
C11_MaxCountOne ==
    sna_graph # None =>
        /\ \A l \in Distances : ~DividesByZero(l)
        /\ MaxCount = 1 => \A l \in Distances : IsMaxLength(l)

\* a graph of several pairs, each recorded once
C11_Witness ==
    /\ sna_graph # None
    /\ MaxCount = 1
    /\ Cardinality(Edges(heap, sna_graph)) >= 2

-----------------------------------------------------------------------------
(* Shape of the graphs *)

\* the graphs of the state: the built graph and the modified graph
Graphs == {sna_graph, simulation_graph} \ {None}

\* the adjacency of g is symmetric and both directions of an edge hold the
\* same attributes: one edge per unordered pair
OneEdgePerPair(g) ==
    \A u \in Members(heap, g) : \A v \in NbrSet(heap, g, u) :
        /\ v \in Members(heap, g)
        /\ u \in NbrSet(heap, g, v)
        /\ EdgeData(heap, g, u, v) = EdgeData(heap, g, v, u)

NoSelfLoop(g) == \A u \in Members(heap, g) : u \notin NbrSet(heap, g, u)

\* C12: the built graph and every modified graph made from it are simple:
\* no member is its own neighbour and there is one edge per unordered pair.
C12_Simple == \A g \in Graphs : NoSelfLoop(g) /\ OneEdgePerPair(g)

\* the part of C12 that the code meets
C12_OneEdgePerPair == \A g \in Graphs : OneEdgePerPair(g)

-----------------------------------------------------------------------------
(* What the metrics depend on *)

\* the heap with the attributes of every edge replaced by count and distance
Reweighed(h, count, distance) ==
    Table([a \in DOMAIN h |->
        IF h[a].t = "attr"
        THEN [t |-> "attr", keys |-> <<"count", "distance">>,
              val |-> ("count" :> count) @@ ("distance" :> distance)]
        ELSE h[a]])

\* other counts for the edges (those of the engine's herds are 1)
OtherCounts == {2}

\* C13: a graph with the same members and edges and other count and distance
\* attributes has the same per-member metrics, risk scores, group metrics and
\* top-risk list.
C13_TopologyOnly ==
    \A b \in Bundles : \A count \in OtherCounts :
        get_demo_sna_results(Reweighed(heap, count, Length(count, 3)), b.g) = b.m[1]

\* a graph of three or more members with edges, one member having
\* neighbours in another community
C13_Witness ==
    \E b \in Bundles :
        /\ Cardinality(Members(heap, b.g)) >= 3
        /\ \E c \in Members(heap, b.g) : b.m[1].per_cow_metrics[c].community_disruption > 0
        /\ \A count \in OtherCounts :
               Reweighed(heap, count, Length(count, 3)) # heap

-----------------------------------------------------------------------------
(* Community disruption *)

\* the neighbours of c that belong to another community than c
CrossNeighbours(g, c) ==
    LET communities == greedy_modularity_communities(heap, g)
    IN {v \in NbrSet(heap, g, c) : \A comm \in communities : ~(c \in comm /\ v \in comm)}

\* what C14 asks of the community disruption d of member c of graph g
DisruptionAsClaimed(g, c, d) ==
    IF Cardinality(Members(heap, g)) < 3 \/ NbrSet(heap, g, c) = {}
    THEN d = 0
    ELSE /\ d = Quot(Cardinality(CrossNeighbours(g, c)) * ONE, degree(heap, g, c))
         /\ 0 <= d
         /\ d <= ONE

\* C14: the community disruption of a member is 0 in a graph of fewer than
\* 3 members and for a member without neighbour; otherwise it is the number
\* of its neighbours in another community divided by its degree, a value in
\* [0, 1].
C14_DisruptionFormula ==
    \A b \in Bundles : \A c \in Members(heap, b.g) :
        DisruptionAsClaimed(b.g, c, b.m[1].per_cow_metrics[c].community_disruption)

\* the same for the members that have no record with themselves
C14_DisruptionFormulaNoLoop ==
    \A b \in Bundles : \A c \in Members(heap, b.g) :
        c \notin NbrSet(heap, b.g, c) =>
            DisruptionAsClaimed(b.g, c, b.m[1].per_cow_metrics[c].community_disruption)

-----------------------------------------------------------------------------
(* robust_z_score *)

\* the two metric maps robust_z_score is applied to, for the graph of b
MetricMaps(b) ==
    {[c \in Members(heap, b.g) |-> b.m[1].per_cow_metrics[c].betweenness],
     [c \in Members(heap, b.g) |-> b.m[1].per_cow_metrics[c].degree]}

AllEqual(values) == \A c, d \in DOMAIN values : values[c] = values[d]

\* C15: for a metric map whose values are all equal the denominator of
\* robust_z_score is not zero and every z-score is 0; for the
\* empty map the result is the empty map.
C15_EqualValues ==
    \A b \in Bundles : \A values \in MetricMaps(b) :
        LET ns == Nodes(heap, b.g)
        IN IF ns = <<>>
           THEN robust_z_score(values, ns) = <<>>
           ELSE AllEqual(values) =>
                    /\ Scale(ValuesOf(values, ns)) # 0
                    /\ \A c \in Range(ns) : robust_z_score(values, ns)[c] = 0

\* a graph of several members whose degrees are all the same
C15_Witness ==
    \E b \in Bundles :
        /\ Cardinality(Members(heap, b.g)) >= 2
        /\ \E values \in MetricMaps(b) :
               AllEqual(values) /\ \E c \in DOMAIN values : values[c] > 0

\* the metrics of a graph without members are in the state
C15_EmptyMapReached == \E b \in Bundles : Members(heap, b.g) = {}

-----------------------------------------------------------------------------
(* The top-risk list *)

\* the key of member c in the ranking of bundle b
KeyOf(b, c) == RiskKey(b.m[1].risk_scores[c])

\* the members listed in the top-risk list of b, in its order
Listed(b) == [i \in 1..Len(b.m[1].top_risk_cows) |-> b.m[1].top_risk_cows[i].cow_id]

\* C16: the top-risk list has min(5, member count) entries, all of them
\* distinct members with their own scores, in non-increasing order of
\* max(conflict_risk, isolation_risk), and no member left out has a key above
\* that of a listed member.
C16_TopFive ==
    \A b \in Bundles :
        LET top == b.m[1].top_risk_cows
            listed == Listed(b)
        IN /\ Len(top) = Min2(5, Cardinality(Members(heap, b.g)))
           /\ Range(listed) \subseteq Members(heap, b.g)
           /\ \A i, j \in 1..Len(top) : i # j => listed[i] # listed[j]
           /\ \A i \in 1..Len(top) :
                  /\ top[i].conflict_risk = b.m[1].risk_scores[listed[i]].conflict_risk
                  /\ top[i].isolation_risk = b.m[1].risk_scores[listed[i]].isolation_risk
           /\ \A i, j \in 1..Len(top) : i < j => KeyOf(b, listed[i]) >= KeyOf(b, listed[j])
           /\ \A c \in Members(heap, b.g) \ Range(listed) : \A i \in 1..Len(top) :
                  KeyOf(b, c) <= KeyOf(b, listed[i])

\* a herd of more than five members, the member left out having a key below
\* that of the first of the list, and a member late in the graph's own order
\* having a key above that of an earlier one
C16_Witness ==
    \E b \in Bundles :
        /\ Cardinality(Members(heap, b.g)) > 5
        /\ \E c \in Members(heap, b.g) \ Range(Listed(b)) : KeyOf(b, c) < KeyOf(b, Listed(b)[1])
        /\ \E i, j \in 1..Len(Nodes(heap, b.g)) :
               i < j /\ KeyOf(b, Nodes(heap, b.g)[i]) < KeyOf(b, Nodes(heap, b.g)[j])

\* C17: members with equal max(conflict_risk, isolation_risk) stand in the
\* top-risk list in ascending order of their ids, so that the list does not
\* depend on the order in which the members entered the graph.
C17_TiesById ==
    \A b \in Bundles :
        \A i, j \in 1..Len(Listed(b)) :
            (i < j /\ KeyOf(b, Listed(b)[i]) = KeyOf(b, Listed(b)[j]))
                => Rank(Listed(b)[i]) < Rank(Listed(b)[j])

\* what the code does with ties: they keep the order of the graph's members
C17_TiesByGraphOrder ==
    \A b \in Bundles :
        \A i, j \in 1..Len(Listed(b)) :
            (i < j /\ KeyOf(b, Listed(b)[i]) = KeyOf(b, Listed(b)[j]))
                => IndexOf(Nodes(heap, b.g), Listed(b)[i]) < IndexOf(Nodes(heap, b.g), Listed(b)[j])

-----------------------------------------------------------------------------
(* Determinism of the simulation *)

\* the baseline alone: the heap holding nothing but the baseline graph
Baseline == Collect(heap, <<sna_graph>>)

\* the result r of a removal is the one the state holds
SameResult(r) ==
    /\ r.content = Told
    /\ r.artifact # <<>>
    /\ Snapshot(r.h, r.artifact[1].modified_graph) = Snapshot(heap, simulation_graph)
    /\ <<r.artifact[1].modified_metrics>> = simulation_metrics

\* C18: the result of a removal that the state holds, whatever calls came
\* before it, is the result that either tool gives when invoked anew with
\* the baseline alone and the same target: same modified graph, same
\* modified metrics, same summary.
C18_Repeatable ==
    Told.kind = "removed" =>
        /\ SameResult(remove_cow_from_network(Baseline.h, Told.cow_id, Baseline.at[1]))
        /\ SameResult(remove_cow_from_network_(Baseline.h, Told.cow_id, Baseline.at[1]))

\* a removal has left a modified graph of three or more members
C18_Witness ==
    /\ Told.kind = "removed"
    /\ Cardinality(Members(heap, simulation_graph)) >= 3

-----------------------------------------------------------------------------
(* The group metric diameter *)

\* the graph of the scenario has been built
ScenarioBuilt == sna_graph # None /\ sna_metrics # <<>> /\ interactions[1] = Scenario

\* C19: for the pairs (A,B,3), (B,C,3), (A,C,1) the built graph is connected
\* and its diameter is Finite(2).
C19_ScenarioDiameterTwo ==
    ScenarioBuilt =>
        /\ is_connected(heap, sna_graph)
        /\ sna_metrics[1].herd_metrics[1].diameter = Finite(2)

\* C19 as the code has it: the three members are pairwise adjacent, the
\* graph is connected and its diameter is Finite(1).
C19_ScenarioDiameterOne ==
    ScenarioBuilt =>
        /\ is_connected(heap, sna_graph)
        /\ \A u \in {"A", "B", "C"} : NbrSet(heap, sna_graph, u) = {"A", "B", "C"} \ {u}
        /\ sna_metrics[1].herd_metrics[1].diameter = Finite(1)

C19_Witness == ScenarioBuilt /\ Told.kind = "summary"

\* g is in one piece: no part of its members is closed under adjacency
InOnePiece(g) ==
    \A S \in SUBSET Members(heap, g) :
        (S # {} /\ S # Members(heap, g)) =>
            \E u \in S : \E v \in Members(heap, g) \ S : v \in NbrSet(heap, g, u)

\* the largest hop count between two members of g
LargestHops(g) ==
    LET hops == {shortest_path_length(heap, g, s)[t] :
                     s \in Members(heap, g), t \in Members(heap, g)}
    IN CHOOSE n \in hops : \A k \in hops : k <= n

\* C20: the diameter of a graph with members is Finite(n), n the largest hop
\* count between two members, when the graph is connected, and Unbounded
\* when it is not.
C20_Diameter ==
    \A b \in Bundles :
        Members(heap, b.g) # {} =>
            b.m[1].herd_metrics[1].diameter =
                (IF InOnePiece(b.g) THEN Finite(LargestHops(b.g)) ELSE Unbounded)

\* a removal has split a connected baseline of diameter 2 or more
C20_Witness ==
    /\ Told.kind = "removed"
    /\ sna_metrics # <<>> /\ simulation_metrics # <<>>
    /\ simulation_metrics[1].herd_metrics # <<>>
    /\ sna_metrics[1].herd_metrics[1].diameter.finite
    /\ sna_metrics[1].herd_metrics[1].diameter.n >= 2
    /\ simulation_metrics[1].herd_metrics[1].diameter = Unbounded

-----------------------------------------------------------------------------
(* The group metrics *)

\* 2E / (N(N-1)) of a graph of N members and E edges, 0 below two members
DensityAsClaimed(g) ==
    LET N == Cardinality(Members(heap, g))
        E == Cardinality(Edges(heap, g))
    IN IF N < 2 THEN 0 ELSE Quot(2 * E * ONE, N * (N - 1))

\* C21: the group metrics of every graph report a density, which is
\* 2E / (N(N-1)) for N >= 2 members and 0 for N = 0 and N = 1.
C21_Density ==
    \A b \in Bundles :
        /\ b.m[1].herd_metrics # <<>>
        /\ b.m[1].herd_metrics[1].density = DensityAsClaimed(b.g)

\* the same for the graphs that have a member
C21_DensityOfMembers ==
    \A b \in Bundles :
        Members(heap, b.g) # {} =>
            /\ b.m[1].herd_metrics # <<>>
            /\ b.m[1].herd_metrics[1].density = DensityAsClaimed(b.g)

\* the group metrics of a graph without members hold nothing
C21_NoMemberNoDensity ==
    \A b \in Bundles : Members(heap, b.g) = {} => b.m[1].herd_metrics = <<>>

\* C22: for every graph with a member, avg_degree is at most the largest raw
\* degree, and the group metric max_degree equals the largest raw degree.
C22_MaxDegree ==
    \A b \in Bundles :
        Members(heap, b.g) # {} =>
            LET raw == {degree(heap, b.g, c) * ONE : c \in Members(heap, b.g)}
                largest == CHOOSE d \in raw : \A e \in raw : e <= d
            IN /\ b.m[1].herd_metrics[1].avg_degree <= largest
               /\ b.m[1].herd_metrics[1].max_degree = largest

\* the metrics of a graph whose average degree is below its largest degree,
\* and of a modified graph where the two are equal
C22_Witness ==
    /\ sna_metrics # <<>> /\ simulation_metrics # <<>>
    /\ simulation_metrics[1].herd_metrics # <<>>
    /\ sna_metrics[1].herd_metrics[1].avg_degree
           < sna_metrics[1].herd_metrics[1].max_degree
    /\ simulation_metrics[1].herd_metrics[1].avg_degree
           = simulation_metrics[1].herd_metrics[1].max_degree

-----------------------------------------------------------------------------
(* The adjacency map as an input of the engine *)

\* a step in which a caller handed a returned graph back to the tool
ReenterStep == fault' = "none" /\ messages' # <<>> /\ messages'[1].name = "caller"

\* graph g2 of heap h2 has the members of g1 of heap h1 but c, the edges of g1
\* not at c, and on each of them the attributes it has in g1
Without(h1, g1, h2, g2, c) ==
    /\ Members(h2, g2) = Members(h1, g1) \ {c}
    /\ Edges(h2, g2) = {e \in Edges(h1, g1) : c \notin e}
    /\ \A u \in Members(h2, g2) : \A v \in NbrSet(h2, g2, u) :
           EdgeData(h2, g2, u, v) = EdgeData(h1, g1, u, v)

\* C23: when a graph returned by a simulation is handed back as a baseline,
\* the graph the tool rebuilds from it has exactly its members, edges and
\* attributes; for a member of it the tool returns that graph without the
\* member, one member fewer, and for any other id it reports the id absent
\* among that many members.
C23_Reentry ==
    [][ReenterStep =>
          LET c == messages'[1].content.cow_id
              base == from_dict_of_dicts(heap, simulation_graph)
          IN /\ Without(heap, simulation_graph, base.h, base.g, Stranger)
             /\ IF c \in Members(heap, simulation_graph)
                THEN /\ messages'[1].content.kind = "removed"
                     /\ Without(heap, simulation_graph, heap', simulation_graph', c)
                     /\ Cardinality(Members(heap', simulation_graph'))
                            = Cardinality(Members(heap, simulation_graph)) - 1
                     /\ messages'[1].content.nodes
                            = Cardinality(Members(heap, simulation_graph)) - 1
                ELSE /\ messages'[1].content.kind = "not_present"
                     /\ messages'[1].content.total_nodes
                            = Cardinality(Members(heap, simulation_graph))
                     /\ Snapshot(heap', simulation_graph') = Snapshot(heap, simulation_graph)
    ]_vars

\* a graph in which a removal had left a member without neighbour was handed
\* back, and a second member was removed from it
C23_Witness ==
    /\ messages # <<>> /\ messages[1].name = "caller"
    /\ Told.kind = "removed"
    /\ Cardinality(Members(heap, simulation_graph))
           = Cardinality(Members(heap, sna_graph)) - 2
    /\ \E u \in Members(heap, simulation_graph) :
           /\ NbrSet(heap, simulation_graph, u) = {}
           /\ Told.cow_id \notin NbrSet(heap, sna_graph, u)

-----------------------------------------------------------------------------
(* Callers that run the removal at the same time *)

\* the baseline as sna_node builds it from the interactions of the state
Fresh == create_social_network_graph(<<>>, groupby_size(DataFrame(interactions[1])))

\* what a tool returns for the baseline when no other call runs
Alone(tool, cow_id, given) ==
    IF given = None THEN [h |-> <<>>, content |-> NoBaseline, artifact |-> <<>>]
    ELSE IF tool = "remove_cow_from_network"
         THEN remove_cow_from_network(Fresh.h, cow_id, Fresh.g)
         ELSE remove_cow_from_network_(Fresh.h, cow_id, Fresh.g)

\* the objects of the graphs a call has made
Own(p) ==
    Reachable(heap, calls[p].G_base) \cup Reachable(heap, calls[p].G_modified)
        \cup Reachable(heap, calls[p].dod)

\* C24: whatever the interleaving of the calls of two callers, the baseline a
\* call was given stays as it was built, the graphs a call makes share no
\* object with the baseline or with the graphs of the other call, and a call
\* returns the content, the modified graph and the metrics it returns when
\* it runs alone.
C24_NoInterference ==
    \A p \in Callers :
        /\ calls[p].graph # None =>
               Snapshot(heap, calls[p].graph) = Snapshot(Fresh.h, Fresh.g)
        /\ Own(p) \cap Reachable(heap, calls[p].graph) = {}
        /\ \A q \in Callers \ {p} :
               Own(p) \cap (Own(q) \cup Reachable(heap, calls[q].graph)) = {}
        /\ calls[p].pc = "done" =>
               \E r \in {Alone(calls[p].tool, calls[p].cow_id, calls[p].graph)} :
                  /\ calls[p].content = r.content
                  /\ IF r.artifact = <<>>
                     THEN calls[p].dod = None /\ calls[p].metrics = <<>>
                     ELSE /\ calls[p].dod # None
                          /\ Snapshot(heap, calls[p].dod)
                                 = Snapshot(r.h, r.artifact[1].modified_graph)
                          /\ calls[p].metrics = <<r.artifact[1].modified_metrics>>

\* two calls have removed different members of the same baseline, and one of
\* them rebuilt the baseline while the other was removing its member
C24_Witness ==
    /\ \A p \in Callers : calls[p].pc = "done" /\ calls[p].content.kind = "removed"
    /\ calls[1].cow_id # calls[2].cow_id
    /\ \E p \in Callers : calls[p].overlapped

-----------------------------------------------------------------------------
(* Counts and distances of the built graph *)

\* the attributes of the edges of the built graph, by edge
BuiltEdges ==
    [e \in Edges(heap, sna_graph) |->
        LET u == CHOOSE x \in e : TRUE
            v == CHOOSE y \in e : e = {u, y}
        IN EdgeData(heap, sna_graph, u, v).val]

\* C25: of two edges of a built graph the one with the smaller count has the
\* larger distance, and two edges with the same count have the same distance.
C25_DistanceFallsWithCount ==
    sna_graph # None =>
        \A e1 \in DOMAIN BuiltEdges : \A e2 \in DOMAIN BuiltEdges :
            /\ BuiltEdges[e1]["count"] < BuiltEdges[e2]["count"]
                   => Shorter(BuiltEdges[e2]["distance"], BuiltEdges[e1]["distance"])
            /\ BuiltEdges[e1]["count"] = BuiltEdges[e2]["count"]
                   => BuiltEdges[e1]["distance"] = BuiltEdges[e2]["distance"]

\* a built graph with three edges of three counts and a fourth edge that
\* has the count of one of them
C25_Witness ==
    /\ sna_graph # None
    /\ Cardinality({BuiltEdges[e]["count"] : e \in DOMAIN BuiltEdges}) = 3
    /\ Cardinality(DOMAIN BuiltEdges) = 4

-----------------------------------------------------------------------------
(* Simulations in a row *)

\* a step in which one of the simulation nodes removed a member
RemovalStep ==
    /\ fault' = "none" /\ messages' # <<>>
    /\ messages'[1].name \in {"ai", "simulation_agent"}
    /\ messages'[1].content.kind = "removed"

\* C26: whatever simulations came before, a simulation that removes member t
\* leaves as simulation_graph the baseline without t and nothing else
\* removed, as simulation_metrics the metrics of that graph, and leaves
\* sna_graph and sna_metrics as they were.
C26_NoAccumulation ==
    [][RemovalStep =>
          /\ Without(heap, sna_graph, heap', simulation_graph', messages'[1].content.cow_id)
          /\ \E G \in {from_dict_of_dicts(heap', simulation_graph')} :
                 simulation_metrics' = <<get_demo_sna_results(G.h, G.g)>>
          /\ Snapshot(heap', sna_graph') = Snapshot(heap, sna_graph)
          /\ sna_metrics' = sna_metrics
    ]_vars

\* a simulation has removed a member of a baseline of three members or more
\* and left a modified graph with metrics
C26_Witness ==
    /\ Told.kind = "removed"
    /\ simulation_graph # None /\ simulation_metrics # <<>>
    /\ Cardinality(Members(heap, sna_graph)) >= 3
    /\ Cardinality(Members(heap, simulation_graph))
           = Cardinality(Members(heap, sna_graph)) - 1
    /\ messages[1].name = "simulation_agent"

-----------------------------------------------------------------------------
(* What a removal leaves in place *)

\* C27: after member t is removed, every other member of the baseline is a
\* member of the modified graph, with or without neighbours, and every edge
\* of the baseline between two of them is in the modified graph with the
\* count and the distance it has in the baseline.
C27_OnlyTheTarget ==
    Told.kind = "removed" =>
        \A u \in Members(heap, sna_graph) \ {Told.cow_id} :
            /\ u \in Members(heap, simulation_graph)
            /\ \A v \in NbrSet(heap, sna_graph, u) \ {Told.cow_id} :
                   /\ v \in NbrSet(heap, simulation_graph, u)
                   /\ EdgeData(heap, simulation_graph, u, v).val["count"]
                          = EdgeData(heap, sna_graph, u, v).val["count"]
                   /\ EdgeData(heap, simulation_graph, u, v).val["distance"]
                          = EdgeData(heap, sna_graph, u, v).val["distance"]

\* the removed member carried the edge with the largest count; it leaves a
\* member without neighbour and an edge of a smaller count, above 1
C27_Witness ==
    /\ Told.kind = "removed"
    /\ \E u \in Members(heap, simulation_graph) : NbrSet(heap, simulation_graph, u) = {}
    /\ \E v \in NbrSet(heap, sna_graph, Told.cow_id) :
           EdgeData(heap, sna_graph, Told.cow_id, v).val["count"] = MaxCount
    /\ \E u \in Members(heap, simulation_graph) : \E v \in NbrSet(heap, simulation_graph, u) :
           /\ EdgeData(heap, simulation_graph, u, v).val["count"] > 1
           /\ EdgeData(heap, simulation_graph, u, v).val["count"] < MaxCount

-----------------------------------------------------------------------------
(* Records of one pair in both orientations *)

\* the number of records that list u first and v second
Times(u, v) == IF Rec(u, v) \in Pairs THEN interactions[1][Rec(u, v)] ELSE 0

\* the number of records between u and v, in either orientation
Total(u, v) == IF u = v THEN Times(u, u) ELSE Times(u, v) + Times(v, u)

\* the largest number of records between two members
MaxTotal ==
    LET totals == {Total(r.cow_i, r.cow_j) : r \in Pairs}
    IN CHOOSE n \in totals : \A k \in totals : k <= n

\* C28: the count of the edge between a and b is the number of records
\* between a and b in either orientation, and the max_count of the distance
\* mapping is the largest of these totals.
C28_CountIsTotal ==
    sna_graph # None =>
        \A u \in Members(heap, sna_graph) : \A v \in NbrSet(heap, sna_graph, u) :
            /\ EdgeData(heap, sna_graph, u, v).val["count"] = Total(u, v)
            /\ EdgeData(heap, sna_graph, u, v).val["distance"].den = MaxTotal - 1

\* what the builder stores: the count of the orientation that comes last in
\* the sorted aggregation, and a max_count that is the largest count of one
\* orientation
C28_CountOfLastOrientation ==
    sna_graph # None =>
        \A u \in Members(heap, sna_graph) : \A v \in NbrSet(heap, sna_graph, u) :
            /\ EdgeData(heap, sna_graph, u, v).val["count"]
                   = (IF Rank(u) < Rank(v)
                      THEN (IF Times(v, u) > 0 THEN Times(v, u) ELSE Times(u, v))
                      ELSE (IF Times(u, v) > 0 THEN Times(u, v) ELSE Times(v, u)))
            /\ EdgeData(heap, sna_graph, u, v).val["distance"].den = MaxCount - 1

\* as long as no pair is recorded in both orientations the count is the total
C28_CountIsTotalOneWay ==
    (\A r \in Pairs : r.cow_i = r.cow_j \/ Times(r.cow_j, r.cow_i) = 0) => C28_CountIsTotal

-----------------------------------------------------------------------------
(* The metrics of any graph with a member *)

\* C29: every graph with a member that the state holds has its metrics; the
\* keys of per_cow_metrics and of risk_scores are the members of the graph,
\* and num_cows and num_edges are the numbers of its members and edges.
C29_MetricsOfEveryMember ==
    /\ fault = "none" =>
           /\ (sna_graph # None /\ Members(heap, sna_graph) # {}) => sna_metrics # <<>>
           /\ simulation_graph # None => simulation_metrics # <<>>
    /\ \A b \in Bundles :
           Members(heap, b.g) # {} =>
               /\ DOMAIN b.m[1].per_cow_metrics = Members(heap, b.g)
               /\ DOMAIN b.m[1].risk_scores = Members(heap, b.g)
               /\ b.m[1].herd_metrics # <<>>
               /\ b.m[1].herd_metrics[1].num_cows = Cardinality(Members(heap, b.g))
               /\ b.m[1].herd_metrics[1].num_edges = Cardinality(Edges(heap, b.g))

\* the metrics of a modified graph of three members, none with a neighbour
C29_Witness ==
    /\ simulation_graph # None /\ simulation_metrics # <<>>
    /\ Cardinality(Members(heap, simulation_graph)) = 3
    /\ Edges(heap, simulation_graph) = {}
    /\ DOMAIN simulation_metrics[1].risk_scores = Members(heap, simulation_graph)

\* the metrics of a modified graph of a single member
C29_SingleMemberReached ==
    /\ simulation_graph # None /\ simulation_metrics # <<>>
    /\ Cardinality(Members(heap, simulation_graph)) = 1
    /\ simulation_metrics[1].herd_metrics[1].num_cows = 1

-----------------------------------------------------------------------------
(* Failures of a simulation step *)

\* the contents that tell of a failure
Failures == {"no_baseline", "not_present", "failed_to_select"}

\* the step stored no modified graph and no metrics: the two fields are
\* cleared or left as they were
StoresNothing ==
    \/ simulation_graph' = None /\ simulation_metrics' = <<>>
    \/ /\ Snapshot(heap', simulation_graph') = Snapshot(heap, simulation_graph)
       /\ simulation_metrics' = simulation_metrics

\* C30: a step of either simulation node returns, it does not raise; when
\* the removal failed or no target was obtained its update carries the
\* failure as message and stores no modified graph or metrics.
C30_FailureHandled ==
    [][SimulationStep =>
          /\ fault' = "none"
          /\ messages'[1].content.kind \in Failures => StoresNothing
    ]_vars

\* the part of C30 that the code meets: a step that returns with a failure as
\* message stores no modified graph or metrics
C30_ReportedFailureStoresNothing ==
    [][(SimulationStep /\ fault' = "none" /\ messages'[1].content.kind \in Failures)
          => StoresNothing
    ]_vars

\* the failures that do not end with a raise: in src1 no target obtained, in
\* src a removal that failed
C30_HandledFailures ==
    (fault = "none" /\ Told.kind \in Failures) =>
        \/ messages[1].name = "ai" /\ Told.kind = "failed_to_select"
        \/ messages[1].name = "simulation_agent" /\ Told.kind \in {"no_baseline", "not_present"}

====
